---------------------------- MODULE Spec2Model ----------------------------
(***************************************************************************)
(* Model of the ASAP Jobs matching run (match_and_email.py) and of the     *)
(* HTTP handlers that start it (api/match.py, api/run.py).                  *)
(*                                                                         *)
(* Sheet cells are strings, as gspread returns them.  Time is counted in   *)
(* ticks of half a day (DayTicks ticks make one day), so that elapsed      *)
(* times strictly between whole days exist.  A timestamp cell is a record  *)
(* [kind, t]: kind "empty" is the empty cell, "bad" a text that            *)
(* datetime.fromisoformat rejects, "iso" an ISO timestamp of tick t.       *)
(***************************************************************************)
EXTENDS Integers, Sequences, FiniteSets, TLC

\* ------------------------------------------------------------------ bounds
Horizon == 2           \* clock ticks that pass after the initial state
MaxRunTicks == 1       \* clock ticks that may pass while one run is active

\* ------------------------------------------------------ program constants
DayTicks == 2                 \* ticks per day (86400 s)
DAYS_BACK == 2
TOP_N_JOBS == 10
NeverDays == 9999             \* days_since of an absent/unparsable timestamp
HighSalaryThreshold == 100000

None == -1                    \* Python None for Optional[datetime] / Optional[float]

\* ----------------------------------------------------------- Python strings
\* str.lower() on the ASCII letters
LowerMap ==
    [c \in {"A", "B", "C", "D", "E", "F", "G", "H", "I", "J", "K", "L", "M",
            "N", "O", "P", "Q", "R", "S", "T", "U", "V", "W", "X", "Y", "Z"} |->
        CASE c = "A" -> "a" [] c = "B" -> "b" [] c = "C" -> "c" [] c = "D" -> "d"
          [] c = "E" -> "e" [] c = "F" -> "f" [] c = "G" -> "g" [] c = "H" -> "h"
          [] c = "I" -> "i" [] c = "J" -> "j" [] c = "K" -> "k" [] c = "L" -> "l"
          [] c = "M" -> "m" [] c = "N" -> "n" [] c = "O" -> "o" [] c = "P" -> "p"
          [] c = "Q" -> "q" [] c = "R" -> "r" [] c = "S" -> "s" [] c = "T" -> "t"
          [] c = "U" -> "u" [] c = "V" -> "v" [] c = "W" -> "w" [] c = "X" -> "x"
          [] c = "Y" -> "y" [] c = "Z" -> "z"]

LowerChar(c) == IF c \in DOMAIN LowerMap THEN LowerMap[c] ELSE c

RECURSIVE Lower(_)
\* str.lower()
Lower(s) ==
    IF s = "" THEN ""
    ELSE LowerChar(SubSeq(s, 1, 1)) \o Lower(SubSeq(s, 2, Len(s)))

RECURSIVE LStrip(_)
LStrip(s) ==
    IF s # "" /\ SubSeq(s, 1, 1) = " " THEN LStrip(SubSeq(s, 2, Len(s))) ELSE s

RECURSIVE RStrip(_)
RStrip(s) ==
    IF s # "" /\ SubSeq(s, Len(s), Len(s)) = " "
    THEN RStrip(SubSeq(s, 1, Len(s) - 1)) ELSE s

\* str.strip()
Strip(s) == RStrip(LStrip(s))

\* Python's `t in s` on strings
Contains(s, t) ==
    \E i \in 1..(Len(s) - Len(t) + 1) : SubSeq(s, i, i + Len(t) - 1) = t

StartsWith(s, t) == Len(t) <= Len(s) /\ SubSeq(s, 1, Len(t)) = t

RECURSIVE Replace(_, _, _)
\* str.replace(old, new): every non-overlapping occurrence, left to right
Replace(s, old, new) ==
    IF s = "" \/ old = "" \/ ~Contains(s, old) THEN s
    ELSE IF StartsWith(s, old)
         THEN new \o Replace(SubSeq(s, Len(old) + 1, Len(s)), old, new)
         ELSE SubSeq(s, 1, 1) \o Replace(SubSeq(s, 2, Len(s)), old, new)

RECURSIVE Split(_, _)
\* str.split(sep) for a one-character separator: a sequence of the pieces
Split(s, sep) ==
    IF ~Contains(s, sep) THEN <<s>>
    ELSE LET i == CHOOSE k \in 1..Len(s) :
                     /\ SubSeq(s, k, k) = sep
                     /\ \A m \in 1..(k - 1) : SubSeq(s, m, m) # sep
         IN  <<SubSeq(s, 1, i - 1)>> \o Split(SubSeq(s, i + 1, Len(s)), sep)

Range(f) == {f[i] : i \in DOMAIN f}

\* ---------------------------------------------------------- general helpers
\* parse_iso: the tick of a parsable timestamp, None otherwise
parse_iso(cell) == IF cell.kind = "iso" THEN cell.t ELSE None

\* iso_now(): the timestamp cell of the current tick
iso_now(now) == [kind |-> "iso", t |-> now]

EmptyTs == [kind |-> "empty", t |-> 0]
BadTs == [kind |-> "bad", t |-> 0]

\* `a or b` on two timestamp cells: the first that is a non-empty string
OrTs(a, b) == IF a.kind # "empty" THEN a ELSE b

\* parse_csv: the stripped, lower-cased, non-blank comma-separated tokens
parse_csv(value) ==
    IF value = "" THEN <<>>
    ELSE LET parts == Split(value, ",")
             RECURSIVE Keep(_)
             Keep(k) ==
                 IF k > Len(parts) THEN <<>>
                 ELSE IF Strip(parts[k]) # ""
                      THEN <<Lower(Strip(parts[k]))>> \o Keep(k + 1)
                      ELSE Keep(k + 1)
         IN  Keep(1)

bool_from_str(value) == Lower(Strip(value)) \in {"true", "1", "yes", "y"}

\* days_since counting an unparsable cell as no time elapsed
days_since_NeverAsZero(cell, now) ==
    IF parse_iso(cell) = None THEN 0 ELSE now - parse_iso(cell)

\* days_since, in ticks (NeverDays days when the cell does not parse)
days_since(cell, now) ==
    IF parse_iso(cell) = None THEN NeverDays * DayTicks ELSE now - parse_iso(cell)

normalize_text(s) == Lower(Strip(s))

Digits == "0123456789"
IsDigit(c) == \E i \in 1..10 : SubSeq(Digits, i, i) = c
DigitVal(c) == (CHOOSE i \in 1..10 : SubSeq(Digits, i, i) = c) - 1

RECURSIVE NatOf(_)
NatOf(s) ==
    IF s = "" THEN 0
    ELSE 10 * NatOf(SubSeq(s, 1, Len(s) - 1)) + DigitVal(SubSeq(s, Len(s), Len(s)))

\* a string of decimal digits, possibly empty
AllDigits(v) == \A i \in 1..Len(v) : IsDigit(SubSeq(v, i, i))

\* parse_salary: float(str(value).replace(",", "").strip()), None when float()
\* raises. The float is kept as its integer part, which compares with the integer
\* threshold as the float does; cells are unsigned decimals or not numbers.
parse_salary(value) ==
    LET v == Strip(Replace(value, ",", ""))
        parts == Split(v, ".")
    IN  IF v # "" /\ AllDigits(v) THEN NatOf(v)
        ELSE IF Len(parts) = 2 /\ AllDigits(parts[1]) /\ AllDigits(parts[2])
                /\ parts[1] \o parts[2] # ""
             THEN NatOf(parts[1])
        ELSE None

\* ---------------------------------------------------------- frequency logic
\* _normalize_freq comparing the cell as it is, without strip and lower
_normalize_freq_Verbatim(raw) ==
    IF raw = "" THEN "daily"
    ELSE IF raw \in {"2x", "2x per week", "2x/week", "twice_weekly", "2x_week", "twice weekly"}
         THEN "twice_weekly"
         ELSE IF raw = "weekly" THEN "weekly"
         ELSE "daily"

_normalize_freq(raw) ==
    IF raw = "" THEN "daily"
    ELSE LET f == Lower(Strip(raw))
         IN  IF f \in {"2x", "2x per week", "2x/week", "twice_weekly", "2x_week", "twice weekly"}
             THEN "twice_weekly"
             ELSE IF f = "weekly" THEN "weekly"
             ELSE IF f = "daily" THEN "daily"
             ELSE "daily"

\* is_due_to_send with the weekly branch testing the twice-weekly threshold
is_due_to_send_WeeklyAs3(sub, now) ==
    LET freq == _normalize_freq(sub.frequency)
        days == days_since(sub.last_sent_at, now)
    IN  IF freq = "daily" THEN days >= 1 * DayTicks
        ELSE days >= 3 * DayTicks

\* is_due_to_send with strict thresholds
is_due_to_send_Strict(sub, now) ==
    LET freq == _normalize_freq(sub.frequency)
        days == days_since(sub.last_sent_at, now)
    IN  IF freq = "daily" THEN days > 1 * DayTicks
        ELSE IF freq = "twice_weekly" THEN days > 3 * DayTicks
        ELSE IF freq = "weekly" THEN days > 7 * DayTicks
        ELSE days > 1 * DayTicks

\* is_due_to_send: thresholds of 1, 3 and 7 days on the elapsed time
is_due_to_send(sub, now) ==
    LET freq == _normalize_freq(sub.frequency)
        days == days_since(sub.last_sent_at, now)
    IN  IF freq = "daily" THEN days >= 1 * DayTicks
        ELSE IF freq = "twice_weekly" THEN days >= 3 * DayTicks
        ELSE IF freq = "weekly" THEN days >= 7 * DayTicks
        ELSE days >= 1 * DayTicks

\* ------------------------------------------------ canonical roles / expansion
\* CANONICAL_ROLE_GROUPS, in the dict's insertion order
CANONICAL_ROLE_GROUPS == <<
    [canonical |-> "software engineer", group |->
        {"software engineer", "software developer", "swe",
         "backend engineer", "frontend engineer", "full-stack engineer",
         "full stack engineer", "mobile engineer",
         "devops engineer", "site reliability engineer", "sre",
         "platform engineer"}],
    [canonical |-> "backend engineer", group |->
        {"backend engineer", "backend developer", "server engineer"}],
    [canonical |-> "frontend engineer", group |->
        {"frontend engineer", "front-end engineer", "front end engineer", "ui engineer"}],
    [canonical |-> "full-stack engineer", group |->
        {"full-stack engineer", "full stack engineer", "fullstack engineer"}],
    [canonical |-> "devops engineer", group |->
        {"devops engineer", "site reliability engineer", "sre", "platform engineer"}],
    [canonical |-> "data engineer", group |->
        {"data engineer", "analytics engineer", "data platform engineer"}],
    [canonical |-> "data scientist", group |->
        {"data scientist", "ml engineer", "machine learning engineer"}],
    [canonical |-> "data analyst", group |->
        {"data analyst", "business intelligence analyst", "bi analyst"}],
    [canonical |-> "product manager", group |->
        {"product manager", "product owner", "product lead"}],
    [canonical |-> "product designer", group |->
        {"product designer", "ux/ui designer", "ux designer", "ui designer"}],
    [canonical |-> "marketing manager", group |->
        {"marketing manager", "digital marketing manager", "product marketing manager"}],
    [canonical |-> "growth marketer", group |->
        {"growth marketer", "performance marketer", "paid media manager"}],
    [canonical |-> "content marketer", group |->
        {"content marketer", "copywriter", "copy writer", "content writer"}],
    [canonical |-> "sales representative", group |->
        {"sales representative", "sales dev rep", "sdr", "bdr", "inside sales"}],
    [canonical |-> "account executive", group |->
        {"account executive", "ae"}],
    [canonical |-> "customer success manager", group |->
        {"customer success manager", "customer success", "cs manager"}],
    [canonical |-> "support specialist", group |->
        {"support specialist", "customer support", "technical support", "helpdesk"}],
    [canonical |-> "recruiter", group |->
        {"recruiter", "talent acquisition", "talent partner"}],
    [canonical |-> "hr generalist", group |->
        {"hr generalist", "hr specialist"}],
    [canonical |-> "people operations", group |->
        {"people operations", "people ops", "people operations manager"}],
    [canonical |-> "project manager", group |->
        {"project manager", "program manager", "delivery manager"}],
    [canonical |-> "operations manager", group |->
        {"operations manager", "business operations", "ops manager"}],
    [canonical |-> "finance manager", group |->
        {"finance manager", "fp&a manager", "financial analyst"}],
    [canonical |-> "accountant", group |->
        {"accountant", "senior accountant"}],
    [canonical |-> "legal counsel", group |->
        {"legal counsel", "corporate counsel", "attorney", "lawyer"}],
    [canonical |-> "founder / ceo", group |-> {"founder", "co-founder", "ceo"}],
    [canonical |-> "cto", group |-> {"cto", "chief technology officer"}],
    [canonical |-> "cpo", group |-> {"cpo", "chief product officer"}],
    [canonical |-> "coo", group |-> {"coo", "chief operating officer"}],
    [canonical |-> "other", group |-> {"other"}] >>

\* a token's buckets: those whose name or synonym set holds it
BucketsOf(token) ==
    {g.canonical : g \in {h \in Range(CANONICAL_ROLE_GROUPS) :
                            token = h.canonical \/ token \in h.group}}

\* expand_subscriber_roles dropping the tokens no bucket holds
expand_subscriber_roles_DropsUnknown(raw_roles) ==
    IF raw_roles = "" THEN {}
    ELSE LET tokens == parse_csv(raw_roles)
         IN  UNION {BucketsOf(tokens[k]) : k \in DOMAIN tokens}

expand_subscriber_roles(raw_roles) ==
    IF raw_roles = "" THEN {}
    ELSE LET tokens == parse_csv(raw_roles)
         IN  UNION {IF BucketsOf(tokens[k]) # {} THEN BucketsOf(tokens[k]) ELSE {tokens[k]}
                    : k \in DOMAIN tokens}

\* job_role_to_canonical: the FIRST bucket, in dict order, that holds the role
job_role_to_canonical(job_role) ==
    IF job_role = "" THEN ""
    ELSE LET jr == Lower(Strip(job_role))
             hits == {k \in DOMAIN CANONICAL_ROLE_GROUPS :
                        jr = CANONICAL_ROLE_GROUPS[k].canonical
                        \/ jr \in CANONICAL_ROLE_GROUPS[k].group}
         IN  IF hits = {} THEN jr
             ELSE CANONICAL_ROLE_GROUPS[CHOOSE k \in hits : \A m \in hits : k <= m].canonical

\* ------------------------------------------------------------ matching helpers
job_is_recent(job, now) ==
    LET posted == parse_iso(job.posted_at)
        ingested == parse_iso(job.ingested_at)
        cutoff == now - DAYS_BACK * DayTicks
    IN  \/ posted # None /\ posted >= cutoff
        \/ ingested # None /\ ingested >= cutoff

RemoteMarkers == <<"remote -", "remote/", "(remote)", "[remote]", "remote job", "remote">>

RECURSIVE StripMarkers(_, _)
\* the loop of compute_job_fingerprint: title.replace(bad, "").strip() for each marker
StripMarkers(title, k) ==
    IF k > Len(RemoteMarkers) THEN title
    ELSE StripMarkers(Strip(Replace(title, RemoteMarkers[k], "")), k + 1)

compute_job_fingerprint(job) ==
    StripMarkers(normalize_text(job.title), 1)
        \o "::" \o normalize_text(job.company) \o "::" \o normalize_text(job.location)

\* match_remote_scope rejecting only the empty and the onsite scope
match_remote_scope_NotOnsite(job) ==
    LET scope == Lower(Strip(job.remote_scope))
    IN  IF scope = "" THEN FALSE ELSE scope # "onsite"

RemoteScopes == {"global", "country", "regional"}

match_remote_scope(job) ==
    LET scope == Lower(Strip(job.remote_scope))
    IN  IF scope = "" THEN FALSE ELSE scope \in RemoteScopes

\* norm_map.get(t, t) of _location_pref_tokens
NormLocation(t) ==
    CASE t \in {"us", "united states", "united states of america"} -> "usa"
      [] t \in {"uk", "england", "scotland", "wales"} -> "united kingdom"
      [] t \in {"worldwide", "remote"} -> "anywhere"
      [] OTHER -> t

_location_pref_tokens(pref) ==
    IF pref = "" THEN {}
    ELSE LET parts == Split(Replace(pref, "/", ","), ",")
         IN  {NormLocation(Lower(Strip(parts[k]))) :
                k \in {m \in DOMAIN parts : Strip(parts[m]) # ""}}

region_keywords ==
    [europe |-> {"europe", "emea", "eu"},
     latam |-> {"latam", "latin america"},
     apac |-> {"apac", "asia pacific"},
     africa |-> {"africa"}]

match_location(job, location_pref) ==
    IF ~match_remote_scope(job) THEN FALSE
    ELSE LET pref_tokens == _location_pref_tokens(location_pref)
             job_loc == normalize_text(job.location)
             scope == Lower(Strip(job.remote_scope))
         IN  IF pref_tokens = {} THEN TRUE
             ELSE IF "anywhere" \in pref_tokens THEN TRUE
             ELSE IF scope = "global" THEN TRUE
             ELSE \/ \E region \in DOMAIN region_keywords :
                        /\ region \in pref_tokens
                        /\ \E k \in region_keywords[region] : Contains(job_loc, k)
                  \/ \E token \in pref_tokens : token # "" /\ Contains(job_loc, token)

\* match_roles letting a posting without a role through
match_roles_AcceptsNoRole(job_roles, sub_roles_raw) ==
    IF sub_roles_raw = "" THEN TRUE
    ELSE LET expanded_sub_roles == expand_subscriber_roles(sub_roles_raw)
             job_canon == job_role_to_canonical(job_roles)
         IN  IF job_canon = "" THEN TRUE
             ELSE IF job_canon \in expanded_sub_roles THEN TRUE
             ELSE \E g \in Range(CANONICAL_ROLE_GROUPS) :
                      job_canon \in g.group /\ g.canonical \in expanded_sub_roles

match_roles(job_roles, sub_roles_raw) ==
    IF sub_roles_raw = "" THEN TRUE
    ELSE LET expanded_sub_roles == expand_subscriber_roles(sub_roles_raw)
             job_canon == job_role_to_canonical(job_roles)
         IN  IF job_canon = "" THEN FALSE
             ELSE IF job_canon \in expanded_sub_roles THEN TRUE
             ELSE \E g \in Range(CANONICAL_ROLE_GROUPS) :
                      job_canon \in g.group /\ g.canonical \in expanded_sub_roles

\* the keywords table of match_experience
level_keywords ==
    [junior |-> {"junior", "jr "},
     mid |-> {"mid", "intermediate"},
     senior |-> {"senior", "sr ", "sr.", "lead"},
     lead |-> {"lead", "principal", "staff"},
     director |-> {"director", "head of"},
     vp |-> {"vp ", "vice president"}]

match_experience(job_seniority, pref_exp, job_title) ==
    IF pref_exp = "" THEN TRUE
    ELSE LET pref == Lower(Strip(pref_exp))
             seniority == Lower(Strip(job_seniority))
             title == Lower(Strip(job_title))
             \* the levels one of whose keywords occurs in the title
             hit == {level \in DOMAIN level_keywords :
                       \E w \in level_keywords[level] : Contains(title, w)}
             accepted(level) ==
                 \/ pref = level
                 \/ pref = "senior" /\ level \in {"senior", "lead"}
                 \/ pref = "lead" /\ level \in {"lead", "director"}
                 \/ pref = "vp" /\ level = "vp"
         IN  IF seniority # "" THEN Contains(seniority, pref)
             ELSE IF \E level \in hit : accepted(level) THEN TRUE
             ELSE TRUE  \* "if unclear, don't block": the fall-through return

match_employment(job_type, pref_type) ==
    IF pref_type = "" THEN TRUE
    ELSE IF job_type = "" THEN TRUE
    ELSE Contains(Lower(Strip(job_type)), Lower(Strip(pref_type)))

\* match_high_salary requiring more than the threshold
match_high_salary_Above(job, high_salary_only) ==
    IF ~high_salary_only THEN TRUE
    ELSE IF bool_from_str(job.high_salary) THEN TRUE
    ELSE LET min_salary == parse_salary(job.min_salary)
             max_salary == parse_salary(job.max_salary)
             candidate == IF min_salary >= max_salary THEN min_salary ELSE max_salary
         IN  IF candidate = None THEN FALSE ELSE candidate > HighSalaryThreshold

match_high_salary(job, high_salary_only) ==
    IF ~high_salary_only THEN TRUE
    ELSE IF bool_from_str(job.high_salary) THEN TRUE
    ELSE LET min_salary == parse_salary(job.min_salary)
             max_salary == parse_salary(job.max_salary)
             candidate == IF min_salary >= max_salary THEN min_salary ELSE max_salary
         IN  IF candidate = None THEN FALSE ELSE candidate >= HighSalaryThreshold

match_tech_and_lang(job, sub) ==
    LET tech_pref == Range(parse_csv(sub.technologies_pref))
        lang_pref == Range(parse_csv(sub.languages_pref))
        job_tech == Range(parse_csv(job.tech_stack))
        job_tags == Range(parse_csv(job.tags))
    IN  IF tech_pref = {} /\ lang_pref = {} THEN TRUE
        ELSE IF job_tech \cap tech_pref # {} THEN TRUE
        ELSE IF job_tags \cap lang_pref # {} THEN TRUE
        ELSE FALSE

\* match_company without the early return for an empty preference
match_company_NoEarlyReturn(job_company, company_pref) ==
    \E p \in Range(parse_csv(company_pref)) : Contains(Lower(job_company), p)

match_company(job_company, company_pref) ==
    IF company_pref = "" THEN TRUE
    ELSE \E p \in Range(parse_csv(company_pref)) : Contains(Lower(job_company), p)

match_search_term(job, term) ==
    IF term = "" THEN TRUE
    ELSE Contains(Lower(job.title \o " " \o job.company \o " " \o job.tags
                        \o " " \o job.job_roles),
                  Lower(term))

\* score_job taking a point off for a global posting
score_job_PenalisesGlobal(job, sub, now) ==
    LET posted == parse_iso(OrTs(job.posted_at, job.ingested_at))
        age_days == now - posted
    IN    (IF match_roles(job.job_roles, sub.job_roles) THEN 3 ELSE 0)
        + (IF match_location(job, sub.location_pref) THEN 2 ELSE 0)
        + (IF match_experience(job.seniority, sub.experience_level, job.title) THEN 2 ELSE 0)
        + (IF match_employment(job.employment_type, sub.employment_type) THEN 1 ELSE 0)
        + (IF match_tech_and_lang(job, sub) THEN 1 ELSE 0)
        + (IF match_company(job.company, sub.company_pref) THEN 1 ELSE 0)
        + (IF bool_from_str(sub.high_salary_only) /\ match_high_salary(job, TRUE) THEN 1 ELSE 0)
        + (IF posted = None THEN 0
           ELSE IF age_days <= 1 * DayTicks THEN 2
           ELSE IF age_days <= 2 * DayTicks THEN 1
           ELSE 0)
        + (IF Lower(Strip(job.remote_scope)) = "global" THEN -1 ELSE 0)

\* the score with the role dimension weighing 1
score_job_RoleWeight1(job, sub, now) ==
    LET posted == parse_iso(OrTs(job.posted_at, job.ingested_at))
        age_days == now - posted
    IN    (IF match_roles(job.job_roles, sub.job_roles) THEN 1 ELSE 0)
        + (IF match_location(job, sub.location_pref) THEN 2 ELSE 0)
        + (IF match_experience(job.seniority, sub.experience_level, job.title) THEN 2 ELSE 0)
        + (IF match_employment(job.employment_type, sub.employment_type) THEN 1 ELSE 0)
        + (IF match_tech_and_lang(job, sub) THEN 1 ELSE 0)
        + (IF match_company(job.company, sub.company_pref) THEN 1 ELSE 0)
        + (IF bool_from_str(sub.high_salary_only) /\ match_high_salary(job, TRUE) THEN 1 ELSE 0)
        + (IF posted = None THEN 0
           ELSE IF age_days <= 1 * DayTicks THEN 2
           ELSE IF age_days <= 2 * DayTicks THEN 1
           ELSE 0)
        + (IF Lower(Strip(job.remote_scope)) = "global" THEN 1 ELSE 0)

score_job(job, sub, now) ==
    LET posted == parse_iso(OrTs(job.posted_at, job.ingested_at))
        age_days == now - posted
    IN    (IF match_roles(job.job_roles, sub.job_roles) THEN 3 ELSE 0)
        + (IF match_location(job, sub.location_pref) THEN 2 ELSE 0)
        + (IF match_experience(job.seniority, sub.experience_level, job.title) THEN 2 ELSE 0)
        + (IF match_employment(job.employment_type, sub.employment_type) THEN 1 ELSE 0)
        + (IF match_tech_and_lang(job, sub) THEN 1 ELSE 0)
        + (IF match_company(job.company, sub.company_pref) THEN 1 ELSE 0)
        + (IF bool_from_str(sub.high_salary_only) /\ match_high_salary(job, TRUE) THEN 1 ELSE 0)
        + (IF posted = None THEN 0
           ELSE IF age_days <= 1 * DayTicks THEN 2
           ELSE IF age_days <= 2 * DayTicks THEN 1
           ELSE 0)
        + (IF Lower(Strip(job.remote_scope)) = "global" THEN 1 ELSE 0)

\* the filter chain without its role test
PassesCoreFilters_NoRoles(job, sub) ==
    /\ match_location(job, sub.location_pref)
    /\ match_experience(job.seniority, sub.experience_level, job.title)
    /\ match_employment(job.employment_type, sub.employment_type)
    /\ match_high_salary(job, bool_from_str(sub.high_salary_only))
    /\ match_tech_and_lang(job, sub)
    /\ match_company(job.company, sub.company_pref)
    /\ match_search_term(job, sub.search_term)

\* the "Core filters" chain of main's inner loop, in the code's order
PassesCoreFilters(job, sub) ==
    /\ match_location(job, sub.location_pref)
    /\ match_roles(job.job_roles, sub.job_roles)
    /\ match_experience(job.seniority, sub.experience_level, job.title)
    /\ match_employment(job.employment_type, sub.employment_type)
    /\ match_high_salary(job, bool_from_str(sub.high_salary_only))
    /\ match_tech_and_lang(job, sub)
    /\ match_company(job.company, sub.company_pref)
    /\ match_search_term(job, sub.search_term)

RECURSIVE MatchLoop(_, _, _, _, _, _)
\* main's loop over remote_jobs for one subscriber: the (score, job) pairs of
\* `matched`, in pool order; seen is seen_fingerprints
MatchLoop(pool, k, sub, now, seen, matched) ==
    IF k > Len(pool) THEN matched
    ELSE LET job == pool[k]
             fp == compute_job_fingerprint(job)
         IN  IF fp \in seen THEN MatchLoop(pool, k + 1, sub, now, seen, matched)
             ELSE IF ~PassesCoreFilters(job, sub)
                  THEN MatchLoop(pool, k + 1, sub, now, seen, matched)
             ELSE IF score_job(job, sub, now) <= 0
                  THEN MatchLoop(pool, k + 1, sub, now, seen, matched)
             ELSE MatchLoop(pool, k + 1, sub, now, seen \cup {fp},
                            Append(matched, [score |-> score_job(job, sub, now), job |-> job]))

RECURSIVE MatchLoop_MarkFirst(_, _, _, _, _, _)
\* the loop marking a fingerprint as seen before the filters run
MatchLoop_MarkFirst(pool, k, sub, now, seen, matched) ==
    IF k > Len(pool) THEN matched
    ELSE LET job == pool[k]
             fp == compute_job_fingerprint(job)
         IN  IF fp \in seen THEN MatchLoop_MarkFirst(pool, k + 1, sub, now, seen, matched)
             ELSE IF ~PassesCoreFilters(job, sub) \/ score_job(job, sub, now) <= 0
                  THEN MatchLoop_MarkFirst(pool, k + 1, sub, now, seen \cup {fp}, matched)
             ELSE MatchLoop_MarkFirst(pool, k + 1, sub, now, seen \cup {fp},
                            Append(matched, [score |-> score_job(job, sub, now), job |-> job]))

Matched_MarkFirst(pool, sub, now) == MatchLoop_MarkFirst(pool, 1, sub, now, {}, <<>>)

Matched(pool, sub, now) == MatchLoop(pool, 1, sub, now, {}, <<>>)

RECURSIVE InsertByScore_TiesReversed(_, _)
\* the insertion placing x before the elements of equal score
InsertByScore_TiesReversed(sorted, x) ==
    IF sorted = <<>> THEN <<x>>
    ELSE IF Head(sorted).score > x.score
         THEN <<Head(sorted)>> \o InsertByScore_TiesReversed(Tail(sorted), x)
         ELSE <<x>> \o sorted

RECURSIVE InsertByScore(_, _)
\* one step of a stable sort by score, descending: x goes after every element
\* whose score is at least x's
InsertByScore(sorted, x) ==
    IF sorted = <<>> THEN <<x>>
    ELSE IF Head(sorted).score >= x.score
         THEN <<Head(sorted)>> \o InsertByScore(Tail(sorted), x)
         ELSE <<x>> \o sorted

RECURSIVE SortByScore(_, _)
\* matched.sort(key=score, reverse=True): stable, ties keep insertion order
SortByScore(matched, k) ==
    IF k = 0 THEN <<>>
    ELSE InsertByScore(SortByScore(matched, k - 1), matched[k])

\* top_jobs: the jobs of the first TOP_N_JOBS entries of the sorted list
TopJobs(matched) ==
    LET sorted == SortByScore(matched, Len(matched))
        n == IF Len(sorted) < TOP_N_JOBS THEN Len(sorted) ELSE TOP_N_JOBS
    IN  [i \in 1..n |-> sorted[i].job]

RECURSIVE RemoteJobsFrom(_, _, _)
\* recent_jobs, then remote_jobs: the postings of the sheet, in sheet order,
\* that are recent and whose remote_scope is accepted
RemoteJobsFrom(allJobs, k, now) ==
    IF k > Len(allJobs) THEN <<>>
    ELSE IF job_is_recent(allJobs[k], now) /\ match_remote_scope(allJobs[k])
         THEN <<allJobs[k]>> \o RemoteJobsFrom(allJobs, k + 1, now)
         ELSE RemoteJobsFrom(allJobs, k + 1, now)

RemoteJobs(allJobs, now) == RemoteJobsFrom(allJobs, 1, now)

\* ------------------------------------------------------------- sheet contents
\* The initial tick: late enough that a last_sent_at of a week ago exists.
StartTick == 7 * DayTicks

At(d) == [kind |-> "iso", t |-> StartTick - d]

Job(id, source, title, company, location, scope, roles, seniority, posted, ingested) ==
    [source_job_id |-> id, source |-> source, title |-> title, company |-> company,
     location |-> location, remote_scope |-> scope, job_roles |-> roles,
     seniority |-> seniority, employment_type |-> "", tags |-> "", tech_stack |-> "",
     min_salary |-> "", max_salary |-> "", high_salary |-> "",
     posted_at |-> posted, ingested_at |-> ingested]

\* (A) of the end-to-end scenario: a US posting of today
JobA == Job("rok-1", "RemoteOK", "Software Engineer", "Acme", "USA", "country",
            "software engineer", "", At(0), At(0))
\* (B): the same title, company and location, re-listed by another board
JobB == Job("rem-9", "Remotive", "Software Engineer", "Acme", "USA", "country",
            "software engineer", "", At(0), At(0))
\* (C): an onsite posting
JobC == Job("wwr-3", "WeWorkRemotely", "Software Engineer", "Berlin Labs", "Berlin", "onsite",
            "software engineer", "", At(0), At(0))
\* the title, company and location of A, with a marker, other case and no role
JobE == [Job("nod-4", "NoDesk", "Remote - Software Engineer", "ACME", "usa", "Country",
             "", "", EmptyTs, At(1))
         EXCEPT !.tags = "engineer, python"]
\* a global posting with salary data, posted three days ago (outside the window)
\* but ingested yesterday
JobG == [Job("rok-7", "RemoteOK", "Senior Backend Engineer", "Globex", "Worldwide", "global",
             "Backend Engineer", "senior", At(3 * DayTicks), At(DayTicks))
         EXCEPT !.employment_type = "Full-Time", !.tags = "golang, aws",
                !.tech_stack = "golang", !.min_salary = "120,000", !.high_salary = "TRUE"]
\* a regional posting without seniority label
JobEU == [Job("rem-2", "Remotive", "Lead Product Designer", "Umbrella", "Remote - Europe",
              "regional", "product designer", "", BadTs, At(2))
          EXCEPT !.employment_type = "contract", !.max_salary = "90000"]
\* postings the remote filter or the window must drop
JobU == Job("wwr-8", "WeWorkRemotely", "Data Analyst", "Hooli", "Lisbon", "unknown",
            "data analyst", "", At(0), At(0))
JobNoScope == Job("nod-6", "NoDesk", "Software Engineer", "Initech", "USA", "",
                  "software engineer", "", At(0), At(0))
JobOld == Job("rok-5", "RemoteOK", "Software Engineer", "Initech", "USA", "country",
              "software engineer", "", At(3 * DayTicks), At(3 * DayTicks))

\* (A) and (B) with the location text "United States", which upstream
\* (compute_remote_scope) classifies as country like "USA"
JobAus == [JobA EXCEPT !.location = "United States"]
JobBus == [JobB EXCEPT !.location = "United States"]

\* the Jobs sheets of the initial states
JobSheets ==
    {<<>>, <<JobA>>, <<JobC>>, <<JobA, JobB, JobC>>, <<JobAus, JobBus, JobC>>,
     <<JobB, JobA>>, <<JobE, JobA, JobG>>, <<JobA, JobE>>, <<JobA, JobG>>, <<JobG, JobEU>>,
     <<JobEU, JobG, JobA>>, <<JobG, JobG>>, <<JobU, JobNoScope, JobOld, JobA>>}

Sub(email, roles, location, level, emp, high, tech, lang, company, term, freq, last) ==
    [email |-> email, job_roles |-> roles, location_pref |-> location,
     experience_level |-> level, employment_type |-> emp, high_salary_only |-> high,
     technologies_pref |-> tech, languages_pref |-> lang, company_pref |-> company,
     search_term |-> term, frequency |-> freq, last_sent_at |-> last]

\* the subscriber of the end-to-end scenario
SubUsa(freq, last) ==
    Sub("ann@example.com", "software engineer", "usa", "", "", "false", "", "", "", "", freq, last)
\* a subscriber who states no preference
SubNone(freq, last) ==
    Sub("bob@example.com", "", "", "", "", "", "", "", "", "", freq, last)
\* a subscriber with a preference in most fields
SubPicky(freq, last) ==
    Sub("cy@example.com", "Backend Developer, SRE", "Europe / UK", "senior", "full-time",
        "TRUE", "Golang, Rust", "python", "globex, umbrella", "Engineer", freq, last)
\* a row without email
SubNoEmail(freq, last) ==
    Sub("", "", "", "", "", "", "", "", "", "", freq, last)

\* the Subscribers sheets of the initial states
SubscriberSheets ==
    {<<SubUsa("daily", EmptyTs), SubUsa("Weekly", At(7 * DayTicks))>>,
     <<SubUsa("weekly", At(7 * DayTicks - 1)), SubNone("", At(DayTicks))>>,
     <<SubNone("monthly", At(1)), SubUsa("2x", At(3 * DayTicks))>>,
     <<SubUsa("twice weekly", At(3 * DayTicks - 1)), SubPicky("daily", EmptyTs)>>,
     <<SubNoEmail("daily", EmptyTs), SubNone("daily", BadTs)>>,
     <<SubPicky("2x per week", At(0)), SubNone("daily", EmptyTs), SubUsa("daily", At(DayTicks))>>,
     <<SubNone(" Daily ", At(0))>>,
     <<SubPicky("", BadTs), SubPicky("weekly", EmptyTs)>>}

\* ------------------------------------------------------------------- state
VARIABLES
    now,             \* the clock, in ticks
    jobs,            \* the rows of the Jobs sheet
    subs,            \* the rows of the Subscribers sheet
    hasLastSentCol,  \* the Subscribers header has a last_sent_at column
    pc,              \* where each invocation of main() stands
    idx,             \* its position in the subscriber list (row_idx - 1)
    runSubs,         \* subs as read by get_all_records at its start
    runJobs,         \* its remote_jobs
    sent,            \* the emails it has handed to send_email_via_beehiiv
    writes,          \* the update_cell calls it has made
    runTicks,        \* clock ticks since its start
    fn,              \* the function under call when one is exercised on its own
    arg,             \* its arguments
    ret              \* <<>> before it returns, <<value>> after

mainVars == <<now, jobs, subs, hasLastSentCol, pc, idx, runSubs, runJobs, sent, writes, runTicks>>
fnVars == <<fn, arg, ret>>
vars == <<now, jobs, subs, hasLastSentCol, pc, idx, runSubs, runJobs, sent, writes, runTicks,
          fn, arg, ret>>

Runs == {1}
MaxTime == StartTick + Horizon

TypeOK ==
    /\ now \in StartTick..MaxTime
    /\ hasLastSentCol \in BOOLEAN
    /\ pc \in [Runs -> {"idle", "loop", "write", "done", "raised"}]
    /\ idx \in [Runs -> 0..(Len(subs) + 1)]
    /\ runTicks \in [Runs -> 0..MaxRunTicks]

Init ==
    /\ now = StartTick
    /\ jobs \in JobSheets
    /\ subs \in SubscriberSheets
    /\ hasLastSentCol \in BOOLEAN
    /\ pc = [r \in Runs |-> "idle"]
    /\ idx = [r \in Runs |-> 0]
    /\ runSubs = [r \in Runs |-> <<>>]
    /\ runJobs = [r \in Runs |-> <<>>]
    /\ sent = [r \in Runs |-> <<>>]
    /\ writes = [r \in Runs |-> <<>>]
    /\ runTicks = [r \in Runs |-> 0]
    /\ fn = "main" /\ arg = <<>> /\ ret = <<>>

\* ----------------------------------------------------------------- actions
\* The clock advances; while a run is active by at most MaxRunTicks ticks.
Tick ==
    /\ now < MaxTime
    /\ \A r \in Runs : pc[r] \in {"loop", "write"} => runTicks[r] < MaxRunTicks
    /\ now' = now + 1
    /\ runTicks' = [r \in Runs |-> IF pc[r] \in {"loop", "write"} THEN runTicks[r] + 1
                                   ELSE runTicks[r]]
    /\ UNCHANGED <<jobs, subs, hasLastSentCol, pc, idx, runSubs, runJobs, sent, writes>>
    /\ UNCHANGED fnVars

\* GET /api/match or /api/run calls main(): both sheets are read, the header is
\* looked up and remote_jobs is built.
StartRun(r) ==
    /\ \A q \in Runs : pc[q] = "idle"
    /\ pc' = [pc EXCEPT ![r] = "loop"]
    /\ idx' = [idx EXCEPT ![r] = 1]
    /\ runSubs' = [runSubs EXCEPT ![r] = subs]
    /\ runJobs' = [runJobs EXCEPT ![r] = RemoteJobs(jobs, now)]
    /\ sent' = [sent EXCEPT ![r] = <<>>]
    /\ writes' = [writes EXCEPT ![r] = <<>>]
    /\ runTicks' = [runTicks EXCEPT ![r] = 0]
    /\ UNCHANGED <<now, jobs, subs, hasLastSentCol>>
    /\ UNCHANGED fnVars

\* Reading a sheet raises: main() ends before its loop.
StartRunFails(r) ==
    /\ \A q \in Runs : pc[q] = "idle"
    /\ pc' = [pc EXCEPT ![r] = "raised"]
    /\ idx' = [idx EXCEPT ![r] = 0]
    /\ runSubs' = [runSubs EXCEPT ![r] = <<>>]
    /\ runJobs' = [runJobs EXCEPT ![r] = <<>>]
    /\ sent' = [sent EXCEPT ![r] = <<>>]
    /\ writes' = [writes EXCEPT ![r] = <<>>]
    /\ runTicks' = [runTicks EXCEPT ![r] = 0]
    /\ UNCHANGED <<now, jobs, subs, hasLastSentCol>>
    /\ UNCHANGED fnVars

\* The iteration stamping last_sent_at also when nothing matched.
ProcessSubscriber_StampsNoMatch(r) ==
    /\ pc[r] = "loop"
    /\ idx[r] <= Len(runSubs[r])
    /\ LET sub == runSubs[r][idx[r]]
           matched == Matched(runJobs[r], sub, now)
       IN  IF sub.email = "" \/ ~is_due_to_send(sub, now)
           THEN /\ idx' = [idx EXCEPT ![r] = idx[r] + 1]
                /\ UNCHANGED <<pc, sent, subs>>
           ELSE IF matched = <<>>
           THEN /\ idx' = [idx EXCEPT ![r] = idx[r] + 1]
                /\ subs' = [subs EXCEPT ![idx[r]].last_sent_at = iso_now(now)]
                /\ UNCHANGED <<pc, sent>>
           ELSE /\ sent' = [sent EXCEPT ![r] =
                              Append(sent[r], [to |-> idx[r], email |-> sub.email,
                                               at |-> now, top_jobs |-> TopJobs(matched)])]
                /\ IF hasLastSentCol
                   THEN pc' = [pc EXCEPT ![r] = "write"] /\ UNCHANGED idx
                   ELSE idx' = [idx EXCEPT ![r] = idx[r] + 1] /\ UNCHANGED pc
                /\ UNCHANGED subs
    /\ UNCHANGED <<now, jobs, hasLastSentCol, runSubs, runJobs, writes, runTicks>>
    /\ UNCHANGED fnVars

\* One iteration of the subscriber loop up to and including the send.
ProcessSubscriber(r) ==
    /\ pc[r] = "loop"
    /\ idx[r] <= Len(runSubs[r])
    /\ LET sub == runSubs[r][idx[r]]
           matched == Matched(runJobs[r], sub, now)
       IN  IF sub.email = "" \/ ~is_due_to_send(sub, now) \/ matched = <<>>
           THEN \* the three `continue`s
                /\ idx' = [idx EXCEPT ![r] = idx[r] + 1]
                /\ UNCHANGED <<pc, sent>>
           ELSE /\ sent' = [sent EXCEPT ![r] =
                              Append(sent[r], [to |-> idx[r], email |-> sub.email,
                                               at |-> now, top_jobs |-> TopJobs(matched)])]
                /\ IF hasLastSentCol
                   THEN pc' = [pc EXCEPT ![r] = "write"] /\ UNCHANGED idx
                   ELSE idx' = [idx EXCEPT ![r] = idx[r] + 1] /\ UNCHANGED pc
    /\ UNCHANGED <<now, jobs, subs, hasLastSentCol, runSubs, runJobs, writes, runTicks>>
    /\ UNCHANGED fnVars

\* update_cell addressing another column: last_sent_at keeps its value.
WriteLastSent_WrongColumn(r) ==
    /\ pc[r] = "write"
    /\ writes' = [writes EXCEPT ![r] = Append(writes[r], [row |-> idx[r], value |-> iso_now(now)])]
    /\ pc' = [pc EXCEPT ![r] = "loop"]
    /\ idx' = [idx EXCEPT ![r] = idx[r] + 1]
    /\ UNCHANGED <<now, jobs, subs, hasLastSentCol, runSubs, runJobs, sent, runTicks>>
    /\ UNCHANGED fnVars

\* update_cell with the row counted from 1 instead of 2: the row above is written
\* (the header for the first subscriber).
WriteLastSent_RowAbove(r) ==
    /\ pc[r] = "write"
    /\ subs' = IF idx[r] > 1 THEN [subs EXCEPT ![idx[r] - 1].last_sent_at = iso_now(now)]
               ELSE subs
    /\ writes' = [writes EXCEPT ![r] =
                    Append(writes[r], [row |-> idx[r] - 1, value |-> iso_now(now)])]
    /\ pc' = [pc EXCEPT ![r] = "loop"]
    /\ idx' = [idx EXCEPT ![r] = idx[r] + 1]
    /\ UNCHANGED <<now, jobs, hasLastSentCol, runSubs, runJobs, sent, runTicks>>
    /\ UNCHANGED fnVars

\* subs_sheet.update_cell(row_idx, last_sent_col, iso_now()) succeeds.
WriteLastSent(r) ==
    /\ pc[r] = "write"
    /\ subs' = [subs EXCEPT ![idx[r]].last_sent_at = iso_now(now)]
    /\ writes' = [writes EXCEPT ![r] = Append(writes[r], [row |-> idx[r], value |-> iso_now(now)])]
    /\ pc' = [pc EXCEPT ![r] = "loop"]
    /\ idx' = [idx EXCEPT ![r] = idx[r] + 1]
    /\ UNCHANGED <<now, jobs, hasLastSentCol, runSubs, runJobs, sent, runTicks>>
    /\ UNCHANGED fnVars

\* update_cell raises: nothing in main() catches it, the exception leaves main().
WriteRaises(r) ==
    /\ pc[r] = "write"
    /\ pc' = [pc EXCEPT ![r] = "raised"]
    /\ UNCHANGED <<now, jobs, subs, hasLastSentCol, idx, runSubs, runJobs, sent, writes, runTicks>>
    /\ UNCHANGED fnVars

\* The loop is exhausted: main() returns.
FinishRun(r) ==
    /\ pc[r] = "loop"
    /\ idx[r] > Len(runSubs[r])
    /\ pc' = [pc EXCEPT ![r] = "done"]
    /\ UNCHANGED <<now, jobs, subs, hasLastSentCol, idx, runSubs, runJobs, sent, writes, runTicks>>
    /\ UNCHANGED fnVars

\* The HTTP status do_GET answers with: 200 after main() returned, 500 after it raised.
\* do_GET answering 200 whatever main() did
ResponseStatus_Always200(r) == 200

ResponseStatus(r) == IF pc[r] = "raised" THEN 500 ELSE 200

\* the "status" field of the JSON body do_GET answers with
ResponsePayloadStatus(r) == IF pc[r] = "raised" THEN "error" ELSE "success"

\* do_GET writes its response and the invocation is over.
Respond(r) ==
    /\ pc[r] \in {"done", "raised"}
    /\ pc' = [pc EXCEPT ![r] = "idle"]
    /\ idx' = [idx EXCEPT ![r] = 0]
    /\ runSubs' = [runSubs EXCEPT ![r] = <<>>]
    /\ runJobs' = [runJobs EXCEPT ![r] = <<>>]
    /\ sent' = [sent EXCEPT ![r] = <<>>]
    /\ writes' = [writes EXCEPT ![r] = <<>>]
    /\ runTicks' = [runTicks EXCEPT ![r] = 0]
    /\ UNCHANGED <<now, jobs, subs, hasLastSentCol>>
    /\ UNCHANGED fnVars

Next ==
    \/ Tick
    \/ \E r \in Runs : StartRun(r)
    \/ \E r \in Runs : StartRunFails(r)
    \/ \E r \in Runs : ProcessSubscriber(r)
    \/ \E r \in Runs : WriteLastSent(r)
    \/ \E r \in Runs : WriteRaises(r)
    \/ \E r \in Runs : FinishRun(r)
    \/ \E r \in Runs : Respond(r)

Spec == Init /\ [][Next]_vars

\* ------------------------------------------------------------------ claims
\* the digests a run has sent so far
Digests(r) == Range(sent[r])

\* the cadence threshold of a frequency cell, in ticks: 1 day for daily,
\* 3 for twice_weekly, 7 for weekly
CadenceTicks(frequency) ==
    CASE _normalize_freq(frequency) = "daily" -> 1 * DayTicks
      [] _normalize_freq(frequency) = "twice_weekly" -> 3 * DayTicks
      [] _normalize_freq(frequency) = "weekly" -> 7 * DayTicks

\* the row holds a recorded last_sent_at and its cadence threshold has not passed
NotYetDue(row, t) ==
    row.last_sent_at.kind = "iso" /\ t < row.last_sent_at.t + CadenceTicks(row.frequency)

\* a posting survives the loop body for a subscriber at tick t
Survives(job, sub, t) == PassesCoreFilters(job, sub) /\ score_job(job, sub, t) > 0

\* C1: a failure while processing one subscriber does not abort the run: when the
\* run is over, every later subscriber that is due and has matches has been sent
\* its digest.
C1_FailureDoesNotAbort ==
    \A r \in Runs :
        (pc[r] = "raised" /\ idx[r] >= 1) =>
            \A j \in (idx[r] + 1)..Len(runSubs[r]) :
                ( /\ runSubs[r][j].email # ""
                  /\ is_due_to_send(runSubs[r][j], now)
                  /\ Matched(runJobs[r], runSubs[r][j], now) # <<>> )
                => \E m \in Digests(r) : m.to = j

\* C2: a digest is sent to a subscriber whose last_sent_at is recorded as t only at
\* or after t plus the cadence threshold, and the step that processes a subscriber
\* who is not yet due sends nothing and writes nothing.
C2_NoSendBeforeCadence ==
    [][\A r \in Runs :
         /\ Len(sent'[r]) > Len(sent[r]) =>
                LET m == sent'[r][Len(sent'[r])]
                    cell == subs[m.to].last_sent_at
                IN  cell.kind = "iso" =>
                        now >= cell.t + CadenceTicks(subs[m.to].frequency)
         /\ ( /\ pc[r] = "loop"
              /\ idx[r] <= Len(runSubs[r])
              /\ NotYetDue(subs[idx[r]], now) )
            => /\ sent'[r] = sent[r]
               /\ writes'[r] = writes[r]
               /\ subs' = subs
               /\ pc'[r] = "loop"]_vars

\* a digest was sent exactly when the cadence threshold of a recorded last_sent_at
\* had passed
C2_Witness ==
    \E r \in Runs : \E m \in Digests(r) :
        LET cell == runSubs[r][m.to].last_sent_at
        IN  cell.kind = "iso" /\ m.at = cell.t + CadenceTicks(runSubs[r][m.to].frequency)

\* the write that follows the send of digest m is still to come
PendingWrite(r, m) == pc[r] = "write" /\ idx[r] = m.to

\* the write that followed the send of digest m raised
WriteFailed(r, m) == pc[r] = "raised" /\ idx[r] = m.to

\* the run has set the last_sent_at of m's subscriber to the time of the write
Written(r, m) ==
    \E w \in Range(writes[r]) :
        /\ w.row = m.to
        /\ subs[m.to].last_sent_at = w.value
        /\ w.value.kind = "iso"
        /\ m.at <= w.value.t
        /\ w.value.t <= now

C4_NoMatchNoStamp ==
    [][\A r \in Runs :
         ( /\ pc[r] = "loop"
           /\ idx[r] <= Len(runSubs[r])
           /\ idx'[r] = idx[r] + 1
           /\ runSubs[r][idx[r]].email # ""
           /\ is_due_to_send(runSubs[r][idx[r]], now)
           /\ \A k \in DOMAIN runJobs[r] : ~Survives(runJobs[r][k], runSubs[r][idx[r]], now) )
         => /\ sent'[r] = sent[r]
            /\ writes'[r] = writes[r]
            /\ subs' = subs
            /\ \A t \in now..MaxTime : is_due_to_send(subs'[idx[r]], t)]_vars

\* a run over a non-empty pool ended without digest for a due subscriber, whose
\* last_sent_at is as it was read
C4_Witness ==
    \E r \in Runs : \E i \in DOMAIN runSubs[r] :
        /\ pc[r] = "done"
        /\ runJobs[r] # <<>>
        /\ runSubs[r][i].email # ""
        /\ is_due_to_send(runSubs[r][i], StartTick)
        /\ \A k \in DOMAIN runJobs[r] : ~Survives(runJobs[r][k], runSubs[r][i], now)
        /\ \A m \in Digests(r) : m.to # i
        /\ subs[i].last_sent_at = runSubs[r][i].last_sent_at

\* C5: the subscriber whose processing raised has received no digest in that run.
C5_ErrorMeansNoDigest ==
    \A r \in Runs :
        (pc[r] = "raised" /\ idx[r] >= 1) => \A m \in Digests(r) : m.to # idx[r]

\* C6: a run changes nothing but last_sent_at cells; each write goes to the row of
\* a subscriber to whom the run has sent a digest, at most once per subscriber;
\* the postings, the other fields and the other rows stay as they are.
C6_OnlyLastSentWritten ==
    /\ [](\A r \in Runs : \A k \in DOMAIN writes[r] :
            /\ \E m \in Digests(r) : m.to = writes[r][k].row
            /\ \A k2 \in DOMAIN writes[r] : writes[r][k2].row = writes[r][k].row => k2 = k)
    /\ [][/\ jobs' = jobs
          /\ hasLastSentCol' = hasLastSentCol
          /\ DOMAIN subs' = DOMAIN subs
          /\ \A i \in DOMAIN subs :
               /\ [subs'[i] EXCEPT !.last_sent_at = subs[i].last_sent_at] = subs[i]
               /\ subs'[i] # subs[i] =>
                    \E r \in Runs :
                        /\ pc[r] = "write" /\ idx[r] = i
                        /\ \E m \in Digests(r) : m.to = i /\ m.email = subs[i].email
                        /\ Len(writes'[r]) = Len(writes[r]) + 1
                        /\ writes'[r][Len(writes'[r])].row = i
                        /\ subs'[i].last_sent_at = iso_now(now)]_vars

\* a run has written the last_sent_at of the second row of a sheet
C6_Witness ==
    \E r \in Runs : \E k \in DOMAIN writes[r] :
        writes[r][k].row = 2 /\ subs[2].last_sent_at = writes[r][k].value

\* C7 (as stated): no two postings of a digest share a fingerprint, and the one
\* kept is the first pool posting with that fingerprint.
C7_FirstOccurrenceWins ==
    \A r \in Runs : \A m \in Digests(r) :
        /\ \A a, b \in DOMAIN m.top_jobs :
               compute_job_fingerprint(m.top_jobs[a]) = compute_job_fingerprint(m.top_jobs[b])
                   => a = b
        /\ \A a \in DOMAIN m.top_jobs : \A k \in DOMAIN runJobs[r] :
               compute_job_fingerprint(runJobs[r][k]) = compute_job_fingerprint(m.top_jobs[a])
                   => \E k0 \in 1..k : runJobs[r][k0] = m.top_jobs[a]

\* the fingerprints of a sequence of postings
Fingerprints(seq) ==
    LET RECURSIVE F(_)
        F(k) == IF k > Len(seq) THEN <<>>
                ELSE <<compute_job_fingerprint(seq[k])>> \o F(k + 1)
    IN  F(1)

\* C7 (amended): no two postings of a digest share a fingerprint; the one kept is
\* the first pool posting with that fingerprint that passes the subscriber's
\* filters with a positive score; every such fingerprint is kept for every
\* subscriber (the seen set starts empty), unless the digest is cut at TOP_N_JOBS.
C7_FirstSurvivorWins ==
    \A r \in Runs : \A m \in Digests(r) :
        LET sub == runSubs[r][m.to]
            pool == runJobs[r]
            top == m.top_jobs
            fpPool == Fingerprints(pool)
            fpTop == Fingerprints(top)
            survivors == {k \in DOMAIN pool : Survives(pool[k], sub, m.at)} \cup {}
        IN  /\ \A a, b \in DOMAIN top : fpTop[a] = fpTop[b] => a = b
            /\ \A a \in DOMAIN top : \E k \in survivors :
                   /\ pool[k] = top[a]
                   /\ \A k2 \in survivors : fpPool[k2] = fpPool[k] => k <= k2
            /\ Len(top) < TOP_N_JOBS =>
                   \A k \in survivors : \E a \in DOMAIN top : fpTop[a] = fpPool[k]

\* a digest holds a posting whose fingerprint an earlier pool posting shares
C7_Witness ==
    \E r \in Runs : \E m \in Digests(r) : \E a \in DOMAIN m.top_jobs :
        \E k \in DOMAIN runJobs[r] :
            /\ compute_job_fingerprint(runJobs[r][k]) = compute_job_fingerprint(m.top_jobs[a])
            /\ runJobs[r][k] # m.top_jobs[a]
            /\ \A k0 \in 1..k : runJobs[r][k0] # m.top_jobs[a]

\* the subscriber of the end-to-end scenario
IsE2ESubscriber(sub) ==
    /\ sub.email # ""
    /\ sub.location_pref = "usa"
    /\ sub.job_roles = "software engineer"
    /\ ~bool_from_str(sub.high_salary_only)
    /\ sub.experience_level = "" /\ sub.employment_type = ""
    /\ sub.technologies_pref = "" /\ sub.languages_pref = ""
    /\ sub.company_pref = "" /\ sub.search_term = ""

\* the Jobs sheets of the end-to-end scenario: (A) US-located and posted today,
\* (B) its re-listing, (C) onsite in Berlin
E2ESheets == {<<JobA, JobB, JobC>>, <<JobAus, JobBus, JobC>>}

\* C8: in the end-to-end scenario a completed run has sent every due scenario
\* subscriber exactly one recommendation, (A).
C8_EndToEnd ==
    \A r \in Runs : \A i \in DOMAIN runSubs[r] :
        ( /\ pc[r] = "done"
          /\ jobs \in E2ESheets
          /\ IsE2ESubscriber(runSubs[r][i])
          /\ is_due_to_send(runSubs[r][i], StartTick) )
        => \E m \in Digests(r) : m.to = i /\ m.top_jobs = <<jobs[1]>>

\* C9: every posting of a digest satisfies all nine filter predicates for the
\* subscriber the digest went to.
C9_DigestPassesAllFilters ==
    \A r \in Runs : \A m \in Digests(r) : \A a \in DOMAIN m.top_jobs :
        LET job == m.top_jobs[a]
            sub == runSubs[r][m.to]
        IN  /\ match_remote_scope(job)
            /\ match_location(job, sub.location_pref)
            /\ match_roles(job.job_roles, sub.job_roles)
            /\ match_experience(job.seniority, sub.experience_level, job.title)
            /\ match_employment(job.employment_type, sub.employment_type)
            /\ match_high_salary(job, bool_from_str(sub.high_salary_only))
            /\ match_tech_and_lang(job, sub)
            /\ match_company(job.company, sub.company_pref)
            /\ match_search_term(job, sub.search_term)

\* a subscriber with a preference in every field has been sent a posting
C9_Witness ==
    \E r \in Runs : \E m \in Digests(r) :
        LET sub == runSubs[r][m.to]
        IN  /\ m.top_jobs # <<>>
            /\ sub.job_roles # "" /\ sub.location_pref # "" /\ sub.experience_level # ""
            /\ sub.employment_type # "" /\ bool_from_str(sub.high_salary_only)
            /\ sub.technologies_pref # "" /\ sub.company_pref # "" /\ sub.search_term # ""

\* C10: every posting of a pool or digest has remote_scope global, country or
\* regional, and match_remote_scope rejects every posting of the sheet whose
\* remote_scope is empty, onsite or unknown.
C10_OnlyRemoteScopes ==
    /\ \A r \in Runs : \A k \in DOMAIN runJobs[r] :
           Lower(Strip(runJobs[r][k].remote_scope)) \in {"global", "country", "regional"}
    /\ \A r \in Runs : \A m \in Digests(r) : \A a \in DOMAIN m.top_jobs :
           Lower(Strip(m.top_jobs[a].remote_scope)) \in {"global", "country", "regional"}
    /\ \A k \in DOMAIN jobs :
           Lower(Strip(jobs[k].remote_scope)) \in {"", "onsite", "unknown"}
               => ~match_remote_scope(jobs[k])

\* a run over a sheet with an unknown-scope posting and a posting without scope has
\* sent a digest
C10_Witness ==
    \E r \in Runs :
        /\ sent[r] # <<>>
        /\ \E k \in DOMAIN jobs : jobs[k].remote_scope = "unknown"
        /\ \E k \in DOMAIN jobs : jobs[k].remote_scope = ""

\* ------------------------------------------- functions exercised on their own
\* The state of main() while a function is exercised on its own: no run is active.
MainIdle ==
    /\ now = StartTick
    /\ jobs = <<>>
    /\ subs = <<>>
    /\ hasLastSentCol = FALSE
    /\ pc = [r \in Runs |-> "idle"]
    /\ idx = [r \in Runs |-> 0]
    /\ runSubs = [r \in Runs |-> <<>>]
    /\ runJobs = [r \in Runs |-> <<>>]
    /\ sent = [r \in Runs |-> <<>>]
    /\ writes = [r \in Runs |-> <<>>]
    /\ runTicks = [r \in Runs |-> 0]

\* ---- the ranking step of main(): matched.append, matched.sort, matched[:TOP_N_JOBS]
MaxMatched == 11       \* survivors of one subscriber (one more than TOP_N_JOBS)

\* two scores score_job gives to survivors
SurvivorScores == {9, 12}

\* the k-th survivor of the pool
Survivor(k) == [JobA EXCEPT !.source_job_id = ToString(k)]

SortInit ==
    /\ MainIdle
    /\ fn = "sort" /\ arg = <<>> /\ ret = <<>>

\* matched.append((s, job)) for the next surviving posting of the pool
AppendMatched ==
    /\ fn = "sort" /\ ret = <<>>
    /\ Len(arg) < MaxMatched
    /\ \E s \in SurvivorScores :
           arg' = Append(arg, [score |-> s, job |-> Survivor(Len(arg) + 1)])
    /\ UNCHANGED <<fn, ret>>
    /\ UNCHANGED mainVars

\* matched.sort(key=score, reverse=True); top_jobs = matched[:TOP_N_JOBS]
SortAndCut ==
    /\ fn = "sort" /\ ret = <<>>
    /\ ret' = <<TopJobs(arg)>>
    /\ UNCHANGED <<fn, arg>>
    /\ UNCHANGED mainVars

SortNext == AppendMatched \/ SortAndCut

SortSpec == SortInit /\ [][SortNext]_vars

\* the position in the pool of the i-th posting of a digest
PoolPos(top, i) == CHOOSE k \in DOMAIN arg : arg[k].job = top[i]

\* C11: the digest holds min(TOP_N_JOBS, survivors) postings, each a survivor taken
\* once; none left out scores higher than one taken; the scores are non-increasing
\* and survivors of equal score stand in pool iteration order.
C11_TopNByScore ==
    ret # <<>> =>
        LET top == ret[1]
            n == IF Len(arg) < TOP_N_JOBS THEN Len(arg) ELSE TOP_N_JOBS
            taken == {PoolPos(top, i) : i \in DOMAIN top}
        IN  /\ Len(top) = n
            /\ \A i \in DOMAIN top : \E k \in DOMAIN arg : arg[k].job = top[i]
            /\ \A i, j \in DOMAIN top : top[i] = top[j] => i = j
            /\ \A k \in DOMAIN arg \ taken : \A i \in DOMAIN top :
                   arg[k].score <= arg[PoolPos(top, i)].score
            /\ \A i, j \in DOMAIN top : i < j =>
                   \/ arg[PoolPos(top, i)].score > arg[PoolPos(top, j)].score
                   \/ /\ arg[PoolPos(top, i)].score = arg[PoolPos(top, j)].score
                      /\ PoolPos(top, i) < PoolPos(top, j)

\* more survivors than TOP_N_JOBS, a later survivor outranking an earlier one, and
\* two survivors of equal score in the digest
C11_Witness ==
    /\ ret # <<>>
    /\ Len(arg) > TOP_N_JOBS
    /\ Len(ret[1]) = TOP_N_JOBS
    /\ \E i, j \in DOMAIN ret[1] :
           i < j /\ arg[PoolPos(ret[1], i)].score = arg[PoolPos(ret[1], j)].score
    /\ \E i, j \in DOMAIN ret[1] : i < j /\ PoolPos(ret[1], i) > PoolPos(ret[1], j)

\* ---- is_due_to_send, _normalize_freq
MaxElapsedDays == 8    \* days between last_sent_at and the call

\* frequency cells: UI values, case and padding variants, unrecognized values
FreqCells ==
    {"", "daily", "Daily", " DAILY ", "weekly", "Weekly", " weekly", "WEEKLY ",
     "2x", "2X", "2x per week", "2x/week", "2x_week", "twice_weekly", "twice weekly",
     " Twice Weekly ", "monthly", "twice", "2", "week", "bi-weekly", "weekly digest",
     "every day", " "}

\* the tick of the calls
CallTick == MaxElapsedDays * DayTicks

\* last_sent_at cells: empty, unparsable, or written by iso_now up to
\* MaxElapsedDays days before the call, in steps of one tick
LastSentCells ==
    {EmptyTs, BadTs} \cup {[kind |-> "iso", t |-> CallTick - e] : e \in 0..CallTick}

\* the arguments of is_due_to_send: a subscriber row, and the clock it reads
DueInputs ==
    {[sub |-> SubNone(f, l), now |-> CallTick] : f \in FreqCells, l \in LastSentCells}

\* ---- compute_job_fingerprint
\* titles without a remote marker
FpTitles == {"Engineer", "Senior Engineer", "Engineer - EU"}

\* s with m inserted after its first p characters
InsertAt(s, p, m) == SubSeq(s, 1, p) \o m \o SubSeq(s, p + 1, Len(s))

\* the titles made of a title and one marker: the marker inserted at any
\* position, or standing as a word of its own before any word
MarkedTitles(title) ==
    {InsertAt(title, p, RemoteMarkers[k]) : p \in 0..Len(title), k \in DOMAIN RemoteMarkers}
    \cup {InsertAt(title, p, RemoteMarkers[k] \o " ") :
              p \in {q \in 0..(Len(title) - 1) : q = 0 \/ SubSeq(title, q, q) = " "},
              k \in DOMAIN RemoteMarkers}

\* company and location cells that differ in case and surrounding blanks only
FpCompanyLocation == {<<"Acme", "EU">>, <<"ACME ", " eu">>}

\* the arguments of two calls of compute_job_fingerprint: a posting, and a
\* re-listing whose title carries a marker
FingerprintInputs ==
    UNION {{[a |-> Job("rok-1", "RemoteOK", t, "Acme", "EU", "regional", "", "", EmptyTs, EmptyTs),
             b |-> Job("wwr-1", "WeWorkRemotely", m, cl[1], cl[2], "regional", "", "",
                       EmptyTs, EmptyTs)] :
                m \in MarkedTitles(t), cl \in FpCompanyLocation} : t \in FpTitles}

Call_compute_job_fingerprint ==
    /\ fn = "compute_job_fingerprint" /\ ret = <<>>
    /\ ret' = <<compute_job_fingerprint(arg.a), compute_job_fingerprint(arg.b)>>
    /\ UNCHANGED <<fn, arg>>
    /\ UNCHANGED mainVars

\* ---- expand_subscriber_roles
\* job_roles cells of subscribers, each with its stripped lower-cased tokens
RoleCellTable ==
    <<  <<"", <<>> >>,
        <<"Backend Developer, SRE", <<"backend developer", "sre">> >>,
        <<"software engineer", <<"software engineer">> >>,
        <<"Backend Engineer", <<"backend engineer">> >>,
        <<" SRE ", <<"sre">> >>,
        <<"growth hacker", <<"growth hacker">> >>,
        <<"Growth Hacker, swe", <<"growth hacker", "swe">> >>,
        <<"backend developer,,  , Astronaut", <<"backend developer", "astronaut">> >>,
        <<"full stack engineer,ui engineer", <<"full stack engineer", "ui engineer">> >>,
        <<"engineer", <<"engineer">> >>,
        <<"DevOps Engineer, devops engineer", <<"devops engineer", "devops engineer">> >>  >>

RoleCells == {RoleCellTable[k][1] : k \in DOMAIN RoleCellTable}

Call_expand_subscriber_roles ==
    /\ fn = "expand_subscriber_roles" /\ ret = <<>>
    /\ ret' = <<expand_subscriber_roles(arg)>>
    /\ UNCHANGED <<fn, arg>>
    /\ UNCHANGED mainVars

\* ---- the filter predicates and score_job
\* a posting with nothing but a scope
JobBare == Job("", "", "", "", "", " Global ", "", "", EmptyTs, EmptyTs)

\* postings the predicates are called on
FilterJobs == {JobA, JobC, JobE, JobG, JobEU, JobU, JobNoScope, JobOld, JobAus, JobBare}

\* subscribers who state no preference; high_salary_only empty or a false value
NoPrefSubs ==
    {Sub("bob@example.com", "", "", "", "", h, "", "", "", "", f, EmptyTs) :
        h \in {"", "false", "FALSE", "no", "0", " False "}, f \in {"", "weekly"}}

\* the arguments of the predicates: a posting and a subscriber row
FilterInputs ==
    {[job |-> j, sub |-> s] :
        j \in FilterJobs,
        s \in NoPrefSubs \cup {SubUsa("daily", EmptyTs), SubPicky("daily", EmptyTs)}}

\* the predicates of the loop body, each called on the posting and the subscriber
Call_core_filters ==
    /\ fn = "core_filters" /\ ret = <<>>
    /\ ret' = <<[location |-> match_location(arg.job, arg.sub.location_pref),
                 roles |-> match_roles(arg.job.job_roles, arg.sub.job_roles),
                 experience |-> match_experience(arg.job.seniority, arg.sub.experience_level,
                                                 arg.job.title),
                 employment |-> match_employment(arg.job.employment_type,
                                                 arg.sub.employment_type),
                 high_salary |-> match_high_salary(arg.job,
                                                   bool_from_str(arg.sub.high_salary_only)),
                 tech_and_lang |-> match_tech_and_lang(arg.job, arg.sub),
                 company |-> match_company(arg.job.company, arg.sub.company_pref),
                 search_term |-> match_search_term(arg.job, arg.sub.search_term)]>>
    /\ UNCHANGED <<fn, arg>>
    /\ UNCHANGED mainVars

\* ---- the recency bonus of score_job
MaxAgeDays == 3        \* age of a posting's timestamps at the call

\* posted_at and ingested_at cells: empty, unparsable, or up to MaxAgeDays old
RecencyCells == {EmptyTs, BadTs} \cup {At(d) : d \in 0..(MaxAgeDays * DayTicks)}

\* the arguments of score_job: a posting with each pair of timestamp cells
RecencyInputs ==
    {[job |-> [JobG EXCEPT !.posted_at = p, !.ingested_at = i], sub |-> s] :
        p \in RecencyCells, i \in RecencyCells,
        s \in {SubPicky("daily", EmptyTs), SubNone("daily", EmptyTs)}}

\* score_job on the posting, and on the posting with both timestamp cells empty
Call_score_job_recency ==
    /\ fn = "score_job_recency" /\ ret = <<>>
    /\ ret' = <<score_job(arg.job, arg.sub, now),
                score_job([arg.job EXCEPT !.posted_at = EmptyTs, !.ingested_at = EmptyTs],
                          arg.sub, now)>>
    /\ UNCHANGED <<fn, arg>>
    /\ UNCHANGED mainVars

\* ---- match_location
\* location_pref cells without an "anywhere" equivalent, each with its raw tokens
\* (split on comma or slash, stripped, lower-cased)
LocationPrefTable ==
    <<  <<"usa", {"usa"}>>,
        <<"us", {"us"}>>,
        <<"US / Canada", {"us", "canada"}>>,
        <<"united states", {"united states"}>>,
        <<"uk", {"uk"}>>,
        <<"Europe / UK", {"europe", "uk"}>>,
        <<"europe", {"europe"}>>,
        <<"latam", {"latam"}>>,
        <<"Germany, France", {"germany", "france"}>>,
        <<"apac", {"apac"}>>  >>

LocationPrefCells == {LocationPrefTable[k][1] : k \in DOMAIN LocationPrefTable}

\* location cells of postings
LocationCells ==
    {"USA", "US", "United States", "UK", "London, United Kingdom", "Remote - Europe",
     "EMEA", "Germany", "Latin America", "Singapore", ""}

\* the arguments of match_location: a country or regional posting and a preference
LocationInputs ==
    {[job |-> [JobA EXCEPT !.location = l, !.remote_scope = sc], pref |-> p] :
        l \in LocationCells, sc \in {"country", "regional"}, p \in LocationPrefCells}

Call_match_location ==
    /\ fn = "match_location" /\ ret = <<>>
    /\ ret' = <<match_location(arg.job, arg.pref)>>
    /\ UNCHANGED <<fn, arg>>
    /\ UNCHANGED mainVars

\* ---- match_experience
\* titles of postings, each with the levels one of whose keywords it holds
TitleLevelTable ==
    <<  <<"Software Engineer", {}>>,
        <<"Junior Developer", {"junior"}>>,
        <<"Mid-level Developer", {"mid"}>>,
        <<"Senior Engineer", {"senior"}>>,
        <<"Lead Engineer", {"senior", "lead"}>>,
        <<"Staff Engineer", {"lead"}>>,
        <<"Director of Engineering", {"director"}>>,
        <<"Head of Data", {"director"}>>,
        <<"VP Engineering", {"vp"}>>,
        <<"", {}>>  >>

ExperienceTitles == {TitleLevelTable[k][1] : k \in DOMAIN TitleLevelTable}

\* experience_level cells of subscribers
ExperiencePrefs == {"junior", "mid", "senior", " Senior", "lead", "Lead", "director", "vp"}

\* the arguments of match_experience; the posting has no seniority label
ExperienceInputs ==
    {[seniority |-> s, pref |-> p, title |-> t] :
        s \in {"", " "}, p \in ExperiencePrefs, t \in ExperienceTitles}

Call_match_experience ==
    /\ fn = "match_experience" /\ ret = <<>>
    /\ ret' = <<match_experience(arg.seniority, arg.pref, arg.title)>>
    /\ UNCHANGED <<fn, arg>>
    /\ UNCHANGED mainVars

\* ---- match_high_salary
\* min_salary and max_salary cells, each with its amount (None: absent or not a number)
SalaryTable ==
    <<  <<"", None>>,
        <<"competitive", None>>,
        <<"$120,000", None>>,
        <<"120k", None>>,
        <<"0", 0>>,
        <<"99999", 99999>>,
        <<"99999.99", 99999>>,
        <<"100000", 100000>>,
        <<"100,000", 100000>>,
        <<"100000.0", 100000>>,
        <<" 120000 ", 120000>>  >>

SalaryCells == {SalaryTable[k][1] : k \in DOMAIN SalaryTable}

\* high_salary cells: set and not set
HighSalaryFlagCells == {"", "TRUE", "yes", "FALSE", "no"}

\* the arguments of match_high_salary for a subscriber with high_salary_only set
HighSalaryInputs ==
    {[job |-> [JobA EXCEPT !.min_salary = lo, !.max_salary = hi, !.high_salary = f],
      high_salary_only |-> TRUE] :
        lo \in SalaryCells, hi \in SalaryCells, f \in HighSalaryFlagCells}

Call_match_high_salary ==
    /\ fn = "match_high_salary" /\ ret = <<>>
    /\ ret' = <<match_high_salary(arg.job, arg.high_salary_only)>>
    /\ UNCHANGED <<fn, arg>>
    /\ UNCHANGED mainVars

\* ---- match_roles on a role of a posting and a role cell of a subscriber
\* role cells of postings
JobRoleCells ==
    {"Backend Engineer", "Software Engineer", "Frontend Engineer", " Data Analyst ",
     "Full Stack Engineer", "Astronaut", ""}

\* role cells of subscribers, one token each
SubRoleCells ==
    {"backend developer", "Software Engineer", "swe", "ui engineer", "data analyst",
     "fullstack engineer", "astronaut"}

RoleInputs == {[job_roles |-> j, sub_roles_raw |-> s] : j \in JobRoleCells, s \in SubRoleCells}

Call_match_roles ==
    /\ fn = "match_roles" /\ ret = <<>>
    /\ ret' = <<match_roles(arg.job_roles, arg.sub_roles_raw)>>
    /\ UNCHANGED <<fn, arg>>
    /\ UNCHANGED mainVars

\* ---- the comma-separated preference filters on a cell and on the empty cell
\* cells without a non-blank token, and cells with one
PrefCells == {",", " , ", " ", ",,", "acme", "python, go", "usa"}

PrefJobs == {JobA, JobC, JobE, JobG, JobEU, JobBare}

PrefInputs == {[job |-> j, pref |-> p] : j \in PrefJobs, p \in PrefCells}

\* the four filters reading a comma-separated preference, called with cell
FiltersOn(job, cell) ==
    [roles |-> match_roles(job.job_roles, cell),
     company |-> match_company(job.company, cell),
     tech |-> match_tech_and_lang(job, [technologies_pref |-> cell, languages_pref |-> cell]),
     location |-> match_location(job, cell)]

Call_csv_filters ==
    /\ fn = "csv_filters" /\ ret = <<>>
    /\ ret' = <<FiltersOn(arg.job, arg.pref), FiltersOn(arg.job, "")>>
    /\ UNCHANGED <<fn, arg>>
    /\ UNCHANGED mainVars

FnInit ==
    /\ MainIdle
    /\ ret = <<>>
    /\ \/ fn = "is_due_to_send" /\ arg \in DueInputs
       \/ fn = "_normalize_freq" /\ arg \in FreqCells
       \/ fn = "compute_job_fingerprint" /\ arg \in FingerprintInputs
       \/ fn = "expand_subscriber_roles" /\ arg \in RoleCells
       \/ fn = "core_filters" /\ arg \in FilterInputs
       \/ fn = "score_job_recency" /\ arg \in RecencyInputs
       \/ fn = "match_location" /\ arg \in LocationInputs
       \/ fn = "match_experience" /\ arg \in ExperienceInputs
       \/ fn = "match_high_salary" /\ arg \in HighSalaryInputs
       \/ fn = "match_roles" /\ arg \in RoleInputs
       \/ fn = "csv_filters" /\ arg \in PrefInputs

Call_is_due_to_send ==
    /\ fn = "is_due_to_send" /\ ret = <<>>
    /\ ret' = <<is_due_to_send(arg.sub, arg.now)>>
    /\ UNCHANGED <<fn, arg>>
    /\ UNCHANGED mainVars

\* _normalize_freq(raw), then _normalize_freq of its result
Call__normalize_freq ==
    /\ fn = "_normalize_freq" /\ ret = <<>>
    /\ ret' = <<_normalize_freq(arg), _normalize_freq(_normalize_freq(arg))>>
    /\ UNCHANGED <<fn, arg>>
    /\ UNCHANGED mainVars

FnNext ==
    \/ Call_is_due_to_send
    \/ Call__normalize_freq
    \/ Call_compute_job_fingerprint
    \/ Call_expand_subscriber_roles
    \/ Call_core_filters
    \/ Call_score_job_recency
    \/ Call_match_location
    \/ Call_match_experience
    \/ Call_match_high_salary
    \/ Call_match_roles
    \/ Call_csv_filters

FnSpec == FnInit /\ [][FnNext]_vars

\* the bucket the specification gives a frequency cell: weekly and the
\* twice-weekly variants by name, whatever the case and padding, daily otherwise
BucketOf(cell) ==
    IF cell \in {"weekly", "Weekly", " weekly", "WEEKLY "} THEN "weekly"
    ELSE IF cell \in {"2x", "2X", "2x per week", "2x/week", "2x_week", "twice_weekly",
                      "twice weekly", " Twice Weekly "} THEN "twice_weekly"
    ELSE "daily"

\* the threshold of a bucket in days
ThresholdDays(bucket) ==
    CASE bucket = "daily" -> 1
      [] bucket = "twice_weekly" -> 3
      [] bucket = "weekly" -> 7

\* C12: is_due_to_send returns true exactly when the time elapsed since
\* last_sent_at is at least 1 day for daily, 3 days for twice_weekly and 7 days for
\* weekly, for every frequency cell (a last_sent_at that does not parse counts as
\* never); weekly with 8 days elapsed is due, with 3 days it is not.
C12_DueExactlyAtThreshold ==
    (fn = "is_due_to_send" /\ ret # <<>>) =>
        LET cell == arg.sub.last_sent_at
            bucket == BucketOf(arg.sub.frequency)
        IN  /\ ret[1] \in BOOLEAN
            /\ ret[1] = (\/ cell.kind # "iso"
                         \/ arg.now - cell.t >= ThresholdDays(bucket) * DayTicks)
            /\ (bucket = "weekly" /\ cell.kind = "iso" /\ arg.now - cell.t = 8 * DayTicks)
                   => ret[1] = TRUE
            /\ (bucket = "weekly" /\ cell.kind = "iso" /\ arg.now - cell.t = 3 * DayTicks)
                   => ret[1] = FALSE

\* weekly, half a day short of 7 days: not due
C12_Witness ==
    /\ fn = "is_due_to_send" /\ ret = <<FALSE>>
    /\ arg.sub.frequency = "WEEKLY "
    /\ arg.sub.last_sent_at.kind = "iso"
    /\ arg.now - arg.sub.last_sent_at.t = 7 * DayTicks - 1

\* C13: for every frequency a subscriber whose last_sent_at is absent, empty or
\* unparsable is due, and the evaluation returns a value.
C13_UnparsableIsDue ==
    (fn = "is_due_to_send" /\ ret # <<>> /\ arg.sub.last_sent_at.kind # "iso") =>
        ret = <<TRUE>>

\* a weekly subscriber with an unparsable last_sent_at was evaluated
C13_Witness ==
    /\ fn = "is_due_to_send" /\ ret # <<>>
    /\ arg.sub.last_sent_at = BadTs
    /\ BucketOf(arg.sub.frequency) = "weekly"

\* C14: _normalize_freq maps every cell to one of daily, twice_weekly, weekly: the
\* twice-weekly variants ("2x", "2x per week", "twice weekly", ...) to twice_weekly,
\* weekly to weekly, anything else and the empty cell to daily; normalizing the
\* result returns it unchanged.
C14_NormalizeFreq ==
    (fn = "_normalize_freq" /\ ret # <<>>) =>
        /\ ret[1] \in {"daily", "twice_weekly", "weekly"}
        /\ ret[1] = BucketOf(arg)
        /\ arg \in {"2x", "2x per week", "twice weekly"} => ret[1] = "twice_weekly"
        /\ ret[2] = ret[1]

\* a padded mixed-case variant was normalized to twice_weekly
C14_Witness ==
    /\ fn = "_normalize_freq" /\ ret # <<>>
    /\ arg = " Twice Weekly "
    /\ ret[1] = "twice_weekly"

\* C15: two postings whose titles differ only by one remote marker, at any
\* position, and whose company and location differ only in case and surrounding
\* blanks, get the same fingerprint.
C15_FingerprintIgnoresMarkers ==
    (fn = "compute_job_fingerprint" /\ ret # <<>> /\ arg.b.title \in MarkedTitles(arg.a.title))
        => ret[1] = ret[2]

\* C16: when reading a sheet fails, the run has sent no digest and written no
\* last_sent_at, and the handler answers HTTP 500 with status "error".
C16_ReadFailureAborts ==
    \A r \in Runs : (pc[r] = "raised" /\ idx[r] = 0) =>
        /\ sent[r] = <<>>
        /\ writes[r] = <<>>
        /\ ResponseStatus(r) = 500
        /\ ResponsePayloadStatus(r) = "error"

\* a read failed while both sheets held rows, one of them a subscriber who is due
C16_Witness ==
    \E r \in Runs :
        /\ pc[r] = "raised" /\ idx[r] = 0
        /\ jobs # <<>>
        /\ \E k \in DOMAIN subs : subs[k].email # "" /\ is_due_to_send(subs[k], now)

\* the tokens of a subscriber's job_roles cell
RoleTokens(cell) ==
    RoleCellTable[CHOOSE k \in DOMAIN RoleCellTable : RoleCellTable[k][1] = cell][2]

\* the canonical names of the buckets whose name or synonym set holds the token
CanonicalsHolding(token) ==
    {CANONICAL_ROLE_GROUPS[k].canonical : k \in
        {j \in DOMAIN CANONICAL_ROLE_GROUPS :
            token = CANONICAL_ROLE_GROUPS[j].canonical \/ token \in CANONICAL_ROLE_GROUPS[j].group}}

\* C17: the expansion holds, for each token, every bucket that contains it, the
\* token itself when no bucket does, and nothing else; every token contributes an
\* element; "Backend Developer, SRE" gives backend engineer and devops engineer.
C17_ExpandRoles ==
    (fn = "expand_subscriber_roles" /\ ret # <<>>) =>
        LET tokens == RoleTokens(arg)
            out == ret[1]
        IN  /\ \A i \in DOMAIN tokens :
                   /\ CanonicalsHolding(tokens[i]) \subseteq out
                   /\ CanonicalsHolding(tokens[i]) = {} => tokens[i] \in out
                   /\ \E x \in out : x \in CanonicalsHolding(tokens[i]) \cup {tokens[i]}
            /\ \A x \in out : \E i \in DOMAIN tokens :
                   \/ x \in CanonicalsHolding(tokens[i])
                   \/ CanonicalsHolding(tokens[i]) = {} /\ x = tokens[i]
            /\ arg = "Backend Developer, SRE" =>
                   {"backend engineer", "devops engineer"} \subseteq out

\* a cell with a token no bucket holds and a token a bucket holds
C17_Witness ==
    /\ fn = "expand_subscriber_roles" /\ ret # <<>>
    /\ arg = "Growth Hacker, swe"
    /\ "growth hacker" \in ret[1]
    /\ Cardinality(ret[1]) >= 2

\* job_roles cells of postings that hold no role
BlankRoleCells == {"", " ", "   "}

\* C18: for a subscriber with a role preference match_roles rejects a posting whose
\* job_roles is empty or blank, and no such posting is in that subscriber's
\* digest; for a subscriber without a role preference match_roles accepts every
\* posting.
C18_NoRoleRejected ==
    /\ \A s \in DOMAIN subs :
           /\ subs[s].job_roles # "" =>
                  \A b \in BlankRoleCells : ~match_roles(b, subs[s].job_roles)
           /\ subs[s].job_roles = "" =>
                  /\ \A b \in BlankRoleCells : match_roles(b, subs[s].job_roles)
                  /\ \A k \in DOMAIN jobs : match_roles(jobs[k].job_roles, subs[s].job_roles)
    /\ \A r \in Runs : \A m \in Digests(r) :
           runSubs[r][m.to].job_roles # "" =>
               \A a \in DOMAIN m.top_jobs : Strip(m.top_jobs[a].job_roles) # ""

\* a digest went to a subscriber with a role preference while the pool held a
\* posting without a role
C18_Witness ==
    \E r \in Runs : \E m \in Digests(r) :
        /\ runSubs[r][m.to].job_roles # ""
        /\ \E k \in DOMAIN runJobs[r] : runJobs[r][k].job_roles \in BlankRoleCells

\* the subscriber states no preference: every preference cell is empty and
\* high_salary_only is empty or a false value
StatesNoPreference(sub) ==
    /\ sub.job_roles = "" /\ sub.location_pref = "" /\ sub.experience_level = ""
    /\ sub.employment_type = "" /\ sub.technologies_pref = "" /\ sub.languages_pref = ""
    /\ sub.company_pref = "" /\ sub.search_term = ""
    /\ sub.high_salary_only \in {"", "false", "FALSE", "no", "0", " False "}

\* the posting's remote_scope is global, country or regional
RemoteEligible(job) ==
    job.remote_scope \in {"global", "country", "regional", "Country", " Global "}

\* C19: a subscriber who states no preference passes every remote-eligible posting
\* through each of the eight predicates.
C19_NoPreferencePasses ==
    (fn = "core_filters" /\ ret # <<>> /\ StatesNoPreference(arg.sub)
        /\ RemoteEligible(arg.job)) =>
            /\ ret[1].location /\ ret[1].roles /\ ret[1].experience /\ ret[1].employment
            /\ ret[1].high_salary /\ ret[1].tech_and_lang /\ ret[1].company
            /\ ret[1].search_term

\* the predicates were called for a subscriber without preference on a posting
\* that has no role, no salary data and no seniority
C19_Witness ==
    /\ fn = "core_filters" /\ ret # <<>>
    /\ StatesNoPreference(arg.sub)
    /\ arg.job = JobBare
    /\ ret[1].roles /\ ret[1].high_salary

\* ---- score_job on two (posting, subscriber) pairs
\* a regional posting that satisfies every preference of SubPicky
JobFit == [Job("rem-3", "Remotive", "Senior Backend Engineer", "Globex", "Remote - Europe",
               "regional", "Backend Engineer", "senior", At(0), At(0))
           EXCEPT !.employment_type = "Full-Time", !.tags = "golang, python",
                  !.tech_stack = "golang", !.min_salary = "120,000", !.high_salary = "TRUE"]

\* JobFit with one cell changed
JobFitVariants ==
    {[JobFit EXCEPT !.job_roles = "data analyst"],
     [JobFit EXCEPT !.location = "Remote - LATAM"],
     [JobFit EXCEPT !.seniority = "junior"],
     [JobFit EXCEPT !.employment_type = "contract"],
     [JobFit EXCEPT !.tech_stack = "java", !.tags = "java"],
     [JobFit EXCEPT !.company = "Initech"],
     [JobFit EXCEPT !.high_salary = "", !.min_salary = "90000"],
     [JobFit EXCEPT !.posted_at = At(DayTicks + 1)],
     [JobFit EXCEPT !.posted_at = At(3 * DayTicks)],
     [JobFit EXCEPT !.remote_scope = "global"]}

ScoreJobs == {JobFit, JobA, JobE, JobBare} \cup JobFitVariants

ScoreSubs ==
    {SubPicky("daily", EmptyTs), [SubPicky("daily", EmptyTs) EXCEPT !.high_salary_only = "no"],
     SubUsa("daily", EmptyTs), SubNone("daily", EmptyTs)}

\* two calls of score_job that share the posting or the subscriber
ScoreInputs ==
    {[a |-> [job |-> j1, sub |-> s1], b |-> [job |-> j2, sub |-> s2]] :
        j1 \in ScoreJobs, j2 \in ScoreJobs, s1 \in ScoreSubs, s2 \in ScoreSubs}

ScoreInit ==
    /\ MainIdle
    /\ fn = "score_job" /\ ret = <<>>
    /\ arg \in {x \in ScoreInputs : (x.a.job = x.b.job) # (x.a.sub = x.b.sub)}

Call_score_job ==
    /\ fn = "score_job" /\ ret = <<>>
    /\ ret' = <<score_job(arg.a.job, arg.a.sub, now), score_job(arg.b.job, arg.b.sub, now)>>
    /\ UNCHANGED <<fn, arg>>
    /\ UNCHANGED mainVars

ScoreNext == Call_score_job

ScoreSpec == ScoreInit /\ [][ScoreNext]_vars

\* the recency level of the timestamp score_job reads: 2 up to a day old,
\* 1 up to two days, else 0
RecencyLevel(job, t) ==
    LET cell == OrTs(job.posted_at, job.ingested_at)
    IN  IF cell.kind # "iso" THEN 0
        ELSE IF t - cell.t <= DayTicks THEN 2
        ELSE IF t - cell.t <= 2 * DayTicks THEN 1
        ELSE 0

\* the satisfied scoring dimensions of a posting for a subscriber at tick t
Dimensions(x, t) ==
    [role |-> match_roles(x.job.job_roles, x.sub.job_roles),
     location |-> match_location(x.job, x.sub.location_pref),
     experience |-> match_experience(x.job.seniority, x.sub.experience_level, x.job.title),
     employment |-> match_employment(x.job.employment_type, x.sub.employment_type),
     tech |-> match_tech_and_lang(x.job, x.sub),
     company |-> match_company(x.job.company, x.sub.company_pref),
     high_salary |-> bool_from_str(x.sub.high_salary_only) /\ match_high_salary(x.job, TRUE),
     global |-> x.job.remote_scope \in {"global", " Global "}]

DimensionNames ==
    {"role", "location", "experience", "employment", "tech", "company", "high_salary", "global"}

\* every dimension satisfied in da is satisfied in db
Covers(db, da) == \A d \in DimensionNames : da[d] => db[d]

\* C20: when one pair satisfies every scoring dimension the other satisfies, with
\* at least its recency level, its score is not lower; no score is negative.
C20_ScoreMonotone ==
    (fn = "score_job" /\ ret # <<>>) =>
        /\ ret[1] >= 0 /\ ret[2] >= 0
        /\ (/\ Covers(Dimensions(arg.b, now), Dimensions(arg.a, now))
            /\ RecencyLevel(arg.b.job, now) >= RecencyLevel(arg.a.job, now))
               => ret[2] >= ret[1]

\* two postings for one subscriber that differ in the global-scope dimension only
C20_Witness ==
    /\ fn = "score_job" /\ ret # <<>>
    /\ arg.a.sub = arg.b.sub
    /\ Dimensions(arg.a, now).global = FALSE /\ Dimensions(arg.b, now).global = TRUE
    /\ \A d \in DimensionNames \ {"global"} :
           Dimensions(arg.a, now)[d] = Dimensions(arg.b, now)[d]
    /\ RecencyLevel(arg.b.job, now) = RecencyLevel(arg.a.job, now)
    /\ ret[2] > ret[1]

\* the ages, in ticks, of the timestamp cells of a posting that parse
ParsedAges(job, t) ==
    {t - c.t : c \in {d \in {job.posted_at, job.ingested_at} : d.kind = "iso"}}

\* the bonus for the more recent of the two timestamps: 2 up to a day old, 1 up to
\* two days, else 0; 0 when neither parses
BonusOfMostRecent(job, t) ==
    IF ParsedAges(job, t) = {} THEN 0
    ELSE LET age == CHOOSE a \in ParsedAges(job, t) : \A b \in ParsedAges(job, t) : a <= b
         IN  IF age <= DayTicks THEN 2 ELSE IF age <= 2 * DayTicks THEN 1 ELSE 0

\* C21: the recency bonus of score_job is the bonus of the more recent of
\* posted_at and ingested_at, for every combination of present, absent and
\* unparsable cells.
C21_RecencyOfMostRecent ==
    (fn = "score_job_recency" /\ ret # <<>>) =>
        ret[1] - ret[2] = BonusOfMostRecent(arg.job, now)

\* the raw tokens of a location_pref cell
RawLocationTokens(cell) ==
    LocationPrefTable[CHOOSE k \in DOMAIN LocationPrefTable : LocationPrefTable[k][1] = cell][2]

\* C22: for a country or regional posting and a preference without "anywhere",
\* match_location accepts exactly when a raw preference token, or a keyword of a
\* preferred region bucket, is a substring of the lower-cased location text.
C22_LocationByRawTokens ==
    (fn = "match_location" /\ ret # <<>>) =>
        LET raw == RawLocationTokens(arg.pref)
            loc == Lower(arg.job.location)
        IN  ret[1] = (\/ \E t \in raw : Contains(loc, t)
                      \/ \E region \in DOMAIN region_keywords :
                             /\ region \in raw
                             /\ \E k \in region_keywords[region] : Contains(loc, k))

\* the levels of the keywords in a title
TitleLevels(title) ==
    TitleLevelTable[CHOOSE k \in DOMAIN TitleLevelTable : TitleLevelTable[k][1] = title][2]

\* the levels a preference accepts: its own; senior also lead; lead also director
AcceptedLevels(pref) ==
    CASE pref \in {"senior", " Senior"} -> {"senior", "lead"}
      [] pref \in {"lead", "Lead"} -> {"lead", "director"}
      [] OTHER -> {pref}

\* C23: without a seniority label match_experience passes a title with no level
\* keyword, accepts a title with a keyword of an accepted level, and rejects a
\* title whose level keywords are all of levels the preference does not accept.
C23_TitleHeuristic ==
    (fn = "match_experience" /\ ret # <<>>) =>
        ret[1] = (\/ TitleLevels(arg.title) = {}
                  \/ TitleLevels(arg.title) \cap AcceptedLevels(arg.pref) # {})

\* the amount of a salary cell
SalaryAmount(cell) ==
    SalaryTable[CHOOSE k \in DOMAIN SalaryTable : SalaryTable[k][1] = cell][2]

\* C24: with high_salary_only set match_high_salary accepts exactly when the
\* posting's high_salary flag is set or the larger of its available salary
\* amounts is at least 100,000; a cell that is empty or not a number counts as
\* absent, and a posting with no flag and no amount is rejected.
C24_HighSalary ==
    (fn = "match_high_salary" /\ ret # <<>> /\ arg.high_salary_only) =>
        LET amounts == {SalaryAmount(arg.job.min_salary), SalaryAmount(arg.job.max_salary)}
                           \ {None}
            flag == arg.job.high_salary \in {"TRUE", "yes"}
        IN  /\ ret[1] \in BOOLEAN
            /\ ret[1] = (flag \/ \E a \in amounts : a >= 100000)
            /\ (~flag /\ amounts = {}) => ret[1] = FALSE

\* a posting without flag, with an unparsable min_salary and a max_salary of
\* exactly 100,000, was accepted
C24_Witness ==
    /\ fn = "match_high_salary" /\ ret = <<TRUE>>
    /\ arg.job.high_salary = "no"
    /\ arg.job.min_salary = "$120,000"
    /\ arg.job.max_salary = "100,000"

\* ------------------------------------------------ the RemoteOK ingest run
\* the longest feed one fetch returns
MaxFeed == 2

\* _to_str on the ids of the feed, which are strings here
_to_str(value) == value

\* _normalize_text of the ingest script: strip only
_normalize_text(s) == Strip(s)

AnyIn(markers, s) == \E m \in markers : Contains(s, m)

onsite_markers ==
    {"onsite only", "on-site only", "onsite", "on-site", "in office", "in-office",
     "no remote", "not remote", "office-based"}

region_markers ==
    {"emea", "latam", "apac", "europe", "asia", "africa", "middle east", "south america",
     "north america", "central america", "cst +/-", "cet +/-", "gmt+", "gmt-", "utc+", "utc-"}

country_tokens ==
    {"usa", "us", "united states", "canada", "uk", "united kingdom", "germany", "france",
     "spain", "italy", "poland", "netherlands", "belgium", "sweden", "norway", "denmark",
     "finland", "ireland", "switzerland", "australia", "new zealand", "brazil", "mexico",
     "argentina", "chile", "colombia", "india", "pakistan", "bangladesh", "philippines",
     "indonesia", "singapore", "south africa", "nigeria", "kenya", "japan", "south korea"}

compute_remote_scope(location) ==
    LET loc == Strip(location)
        lower == Lower(loc)
    IN  IF loc = "" THEN "unknown"
        ELSE IF AnyIn(onsite_markers, lower) THEN "onsite"
        ELSE IF AnyIn({"worldwide", "world wide", "anywhere", "global"}, lower) THEN "global"
        ELSE IF lower \in {"remote", "remote only"} THEN "global"
        ELSE IF AnyIn(region_markers, lower) THEN "regional"
        ELSE IF Contains(loc, ",") THEN "regional"
        ELSE IF lower \in country_tokens THEN "country"
        ELSE IF AnyIn(country_tokens, lower) THEN "country"
        ELSE "unknown"

\* the row of a feed job, or <<>> when the job is filtered out; the columns
\* of the row that the deduplication and the scope filter touch
_normalize_remoteok_job(job) ==
    LET source_job_id == _to_str(job.id)
        location == IF job.location # "" THEN job.location ELSE "Remote"
        remote_scope == compute_remote_scope(location)
    IN  IF job.id = "" THEN <<>>
        ELSE IF remote_scope \notin {"global", "country", "regional"} THEN <<>>
        ELSE <<[id |-> "remoteok_" \o source_job_id, source |-> "RemoteOK",
                source_job_id |-> source_job_id, location |-> location,
                remote_scope |-> remote_scope]>>

\* the keys of the rows the sheet holds when the run starts
existing_keys(sheet) ==
    {_normalize_text(sheet[i].source) \o ":" \o _normalize_text(sheet[i].source_job_id) :
        i \in {k \in DOMAIN sheet : /\ _normalize_text(sheet[k].source) # ""
                                    /\ _normalize_text(sheet[k].source_job_id) # ""}}

RECURSIVE new_rows(_, _)
\* the loop over the fetched jobs: the key set is the one read from the sheet
\* and is not extended while the loop runs
new_rows(feed, keys) ==
    IF feed = <<>> THEN <<>>
    ELSE LET job == Head(feed)
             key == "RemoteOK:" \o _to_str(job.id)
         IN  IF job.id = "" THEN new_rows(Tail(feed), keys)
             ELSE IF key \in keys THEN new_rows(Tail(feed), keys)
             ELSE _normalize_remoteok_job(job) \o new_rows(Tail(feed), keys)

\* what the feed can list: two ids, one entry without an id, a worldwide
\* location and a city-only location
FeedJobs ==
    {[id |-> i, location |-> l] : i \in {"1", "2"}, l \in {"Worldwide", "Berlin"}}
        \cup {[id |-> "", location |-> "Worldwide"]}

Feeds == UNION {[1..n -> FeedJobs] : n \in 0..MaxFeed}

\* the Jobs sheets an ingest run can start from: empty, one row of another
\* board with the id 1, one RemoteOK row with the id 1
IngestSheets ==
    {<<>>,
     <<[id |-> "remotive_1", source |-> "Remotive", source_job_id |-> "1",
        location |-> "Worldwide", remote_scope |-> "global"]>>,
     _normalize_remoteok_job([id |-> "1", location |-> "Worldwide"])}

IngestInit ==
    /\ now = StartTick
    /\ jobs \in IngestSheets
    /\ subs = <<>>
    /\ hasLastSentCol = FALSE
    /\ pc = [r \in Runs |-> "idle"]
    /\ idx = [r \in Runs |-> 0]
    /\ runSubs = [r \in Runs |-> <<>>]
    /\ runJobs = [r \in Runs |-> <<>>]
    /\ sent = [r \in Runs |-> <<>>]
    /\ writes = [r \in Runs |-> <<>>]
    /\ runTicks = [r \in Runs |-> 0]
    /\ fn = "ingest_remoteok" /\ arg = <<>> /\ ret = <<>>

\* one run of ingest_remoteok on a fetched feed
ingest_remoteok ==
    \E feed \in Feeds :
        LET rows == new_rows(feed, existing_keys(jobs))
        IN  /\ fn = "ingest_remoteok"
            /\ jobs' = jobs \o rows
            /\ arg' = feed
            /\ ret' = <<Len(rows)>>
            /\ UNCHANGED <<now, subs, hasLastSentCol, pc, idx, runSubs, runJobs, sent,
                           writes, runTicks, fn>>

\* the fetch raises: nothing is appended
ingest_remoteok_FetchRaises ==
    /\ fn = "ingest_remoteok"
    /\ arg' = <<>>
    /\ ret' = <<"raised">>
    /\ UNCHANGED <<now, jobs, subs, hasLastSentCol, pc, idx, runSubs, runJobs, sent,
                   writes, runTicks, fn>>

IngestNext == ingest_remoteok \/ ingest_remoteok_FetchRaises

IngestSpec == IngestInit /\ [][IngestNext]_vars

\* C25: after any sequence of RemoteOK ingest runs, a feed listing one id
\* twice in one fetch included, the Jobs sheet holds at most one row per
\* (source, source_job_id)
C25_OneRowPerSourceKey ==
    \A i, j \in DOMAIN jobs :
        (jobs[i].source = jobs[j].source /\ jobs[i].source_job_id = jobs[j].source_job_id)
            => i = j

\* C26: every posting that passes the whole filter chain for a subscriber
\* scores at least 10 (role 3, location 2, experience 2, employment 1, tech 1,
\* company 1), so the "score <= 0" test of main's loop never discards
\* a posting the filters let through
C26_PassingScoresAtLeastTen ==
    (fn = "score_job" /\ ret # <<>>) =>
        /\ PassesCoreFilters(arg.a.job, arg.a.sub) => ret[1] >= 10
        /\ PassesCoreFilters(arg.b.job, arg.b.sub) => ret[2] >= 10

\* a posting without timestamps passes the filters of a subscriber without
\* preferences and scores the floor plus the bonus for the global scope
C26_Witness ==
    /\ fn = "score_job" /\ ret # <<>>
    /\ PassesCoreFilters(arg.a.job, arg.a.sub)
    /\ OrTs(arg.a.job.posted_at, arg.a.job.ingested_at).kind # "iso"
    /\ ret[1] = 11

\* the names of a bucket: its canonical name and its synonyms
NamesOf(g) == {g.canonical} \cup g.group

\* a role of a posting and a subscriber token are names of one bucket
ShareBucket(job_role, token) ==
    \E g \in Range(CANONICAL_ROLE_GROUPS) :
        Lower(Strip(job_role)) \in NamesOf(g) /\ Lower(Strip(token)) \in NamesOf(g)

\* C27: match_roles accepts whenever the role of the posting and a role token
\* of the subscriber are names of the same canonical bucket, whatever the
\* order of the buckets
C27_SameBucketAccepted ==
    (fn = "match_roles" /\ ret # <<>> /\ ShareBucket(arg.job_roles, arg.sub_roles_raw))
        => ret[1] = TRUE

\* C28: a preference cell that is not empty but holds no non-blank token is
\* no preference for match_roles, match_company, match_tech_and_lang and
\* match_location: each accepts what it accepts for the empty cell
C28_BlankTokensAreNoPreference ==
    (fn = "csv_filters" /\ ret # <<>> /\ parse_csv(arg.pref) = <<>>) => ret[1] = ret[2]

\* ------------------------------------- two invocations of the run endpoints
\* GET /api/match (1) and GET /api/run (2): each calls main() once, and
\* nothing makes one wait for the other
Handlers == {1, 2}

HandlerJobSheets == {<<JobA>>, <<JobA, JobG>>, <<JobC>>}

HandlerSubscriberSheets ==
    {<<SubUsa("daily", EmptyTs)>>,
     <<SubNone("daily", At(DayTicks))>>,
     <<SubUsa("weekly", EmptyTs), SubNone("2x", At(3 * DayTicks))>>}

HandlersInit ==
    /\ now = StartTick
    /\ jobs \in HandlerJobSheets
    /\ subs \in HandlerSubscriberSheets
    /\ hasLastSentCol \in BOOLEAN
    /\ pc = [r \in Handlers |-> "idle"]
    /\ idx = [r \in Handlers |-> 0]
    /\ runSubs = [r \in Handlers |-> <<>>]
    /\ runJobs = [r \in Handlers |-> <<>>]
    /\ sent = [r \in Handlers |-> <<>>]
    /\ writes = [r \in Handlers |-> <<>>]
    /\ runTicks = [r \in Handlers |-> 0]
    /\ fn = "main" /\ arg = <<>> /\ ret = <<>>

\* time passes; a run in progress takes at most MaxRunTicks ticks
HandlersTick ==
    /\ now < MaxTime
    /\ \A r \in Handlers : pc[r] \in {"loop", "write"} => runTicks[r] < MaxRunTicks
    /\ now' = now + 1
    /\ runTicks' = [r \in Handlers |-> IF pc[r] \in {"loop", "write"} THEN runTicks[r] + 1
                                       ELSE runTicks[r]]
    /\ UNCHANGED <<jobs, subs, hasLastSentCol, pc, idx, runSubs, runJobs, sent, writes>>
    /\ UNCHANGED fnVars

\* do_GET of endpoint r calls main(), whatever the other endpoint is doing:
\* both sheets are read and remote_jobs is built
Invoke(r) ==
    /\ pc[r] = "idle"
    /\ pc' = [pc EXCEPT ![r] = "loop"]
    /\ idx' = [idx EXCEPT ![r] = 1]
    /\ runSubs' = [runSubs EXCEPT ![r] = subs]
    /\ runJobs' = [runJobs EXCEPT ![r] = RemoteJobs(jobs, now)]
    /\ UNCHANGED <<now, jobs, subs, hasLastSentCol, sent, writes, runTicks>>
    /\ UNCHANGED fnVars

HandlersNext ==
    \/ HandlersTick
    \/ \E r \in Handlers : Invoke(r)
    \/ \E r \in Handlers : ProcessSubscriber(r)
    \/ \E r \in Handlers : WriteLastSent(r)
    \/ \E r \in Handlers : WriteRaises(r)
    \/ \E r \in Handlers : FinishRun(r)

HandlersSpec == HandlersInit /\ [][HandlersNext]_vars

\* the run of endpoint r has written the last_sent_at of row i
Stamped(r, i) == \E w \in Range(writes[r]) : w.row = i

\* the run of endpoint b read the last_sent_at of row i that the run of
\* endpoint a had written: b came after a for that subscriber
ReadAfterWrite(a, b, i) ==
    \E w \in Range(writes[a]) : w.row = i /\ runSubs[b][i].last_sent_at = w.value

\* the two runs read the same last_sent_at of row i and both wrote it: each
\* read the subscriber list before the other wrote
ReadBeforeWrite(a, b, i) ==
    /\ runSubs[a][i].last_sent_at = runSubs[b][i].last_sent_at
    /\ Stamped(a, i) /\ Stamped(b, i)

\* the postings of a digest, by source and id
PostingsOf(m) ==
    {<<m.top_jobs[k].source, m.top_jobs[k].source_job_id>> : k \in DOMAIN m.top_jobs}

\* C29: across successive runs, a posting delivered to a subscriber in one
\* digest is not delivered to the same subscriber in a later digest
C29_NoPostingTwice ==
    \A a \in Handlers : \A b \in Handlers \ {a} :
        \A m1 \in Digests(a) : \A m2 \in Digests(b) :
            (m1.to = m2.to /\ ReadAfterWrite(a, b, m1.to))
                => PostingsOf(m1) \cap PostingsOf(m2) = {}

\* C30: when two runs overlap, each reading the subscriber list before the
\* other writes last_sent_at, a subscriber still receives at most one digest
\* per cadence window
C30_OneDigestPerWindow ==
    \A a \in Handlers : \A b \in Handlers \ {a} :
        \A m1 \in Digests(a) : \A m2 \in Digests(b) :
            (m1.to = m2.to /\ m1.at <= m2.at /\ ReadBeforeWrite(a, b, m1.to))
                => m2.at - m1.at >= CadenceTicks(subs[m1.to].frequency)

=============================================================================
